---- MODULE Spec2Model ----
(***************************************************************************)
(* Volur valuation core: DCF calculator, margin of safety, FCF yield and  *)
(* value scorer, modelled from src/volur/valuation/*.py.                   *)
(*                                                                         *)
(* Python floats are modelled as exact rationals [n, d] in lowest terms;   *)
(* Optional[float] is a record [known, v].  Python truthiness of an        *)
(* Optional[float] (None and 0.0 are both falsy) is modelled by Falsy.     *)
(* A division by zero (ZeroDivisionError) is the poisoned rational Raised, *)
(* which every arithmetic operator propagates.                             *)
(***************************************************************************)
EXTENDS Integers, Sequences, FiniteSets

VARIABLES settings, _REGISTRY, calls, op, quote, fundamentals, params, args, result,
          prev, tasks, source_log, collection, now, last_set, subscribers,
          event_history

\* The analyze_stock calls in flight and the data-source calls they made.
engine_calls == <<tasks, source_log>>

\* The cache collection of the dashboard, its clock and, for each cache key,
\* the data of the latest set that reached the store.
cache == <<collection, now, last_set>>

\* The event bus of the dashboard.
bus == <<subscribers, event_history>>

vars ==
    <<settings, _REGISTRY, calls, op, quote, fundamentals, params, args, result, prev,
      engine_calls, cache, bus>>

\* ------------------------------------------------------------- bounds

\* Longest projection horizon of a DCF call (params.years is in 1..MaxYears).
MaxYears == 3

\* The number of register_source calls of a run.
MaxRegistrations == 3

\* The number of analyze_stock calls in flight at once.
MaxTasks == 2

\* The most tickers given to one run of the command line.
MaxTickers == 2

\* The number of clock advances of a run, twelve hours each.
MaxTicks == 3

\* The most subscriptions to one event type, and the most events published.
MaxSubscriptions == 3

MaxEvents == 2

\* ------------------------------------------------- rational arithmetic

Abs(i) == IF i < 0 THEN -i ELSE i

RECURSIVE Gcd(_, _)
Gcd(a, b) == IF b = 0 THEN a ELSE Gcd(b, a % b)

\* The value of a ZeroDivisionError: no number.
Raised == [n |-> 0, d |-> 0]

IsRaised(x) == x.d = 0

\* The rational n/d (d # 0) in lowest terms with a positive denominator.
Rat(n, d) ==
    LET g == Gcd(Abs(n), Abs(d))
        s == IF d < 0 THEN -1 ELSE 1
    IN  [n |-> s * (n \div g), d |-> s * (d \div g)]

Int2Rat(i) == [n |-> i, d |-> 1]

Zero == Int2Rat(0)

One == Int2Rat(1)

Hundred == Int2Rat(100)

RAdd(x, y) ==
    IF IsRaised(x) \/ IsRaised(y) THEN Raised
    ELSE LET g == Gcd(x.d, y.d)
         IN  Rat(x.n * (y.d \div g) + y.n * (x.d \div g), (x.d \div g) * y.d)

RNeg(x) == [n |-> -x.n, d |-> x.d]

RSub(x, y) == RAdd(x, RNeg(y))

RMul(x, y) ==
    IF IsRaised(x) \/ IsRaised(y) THEN Raised
    ELSE LET g1 == Gcd(Abs(x.n), y.d)
             g2 == Gcd(Abs(y.n), x.d)
         IN  Rat((x.n \div g1) * (y.n \div g2), (x.d \div g2) * (y.d \div g1))

\* Python's x / y: raises ZeroDivisionError when y is 0.
RDiv(x, y) ==
    IF IsRaised(x) \/ IsRaised(y) \/ y.n = 0 THEN Raised
    ELSE RMul(x, Rat(y.d, y.n))

\* Python's x ** k for an integer k >= 0.
RECURSIVE RPow(_, _)
RPow(x, k) ==
    IF k = 0 THEN One
    ELSE IF k < 0 THEN RDiv(One, RPow(x, -k))
    ELSE RMul(x, RPow(x, k - 1))

RSign(x) == IF x.n > 0 THEN 1 ELSE IF x.n < 0 THEN -1 ELSE 0

RLt(x, y) == ~IsRaised(x) /\ ~IsRaised(y) /\ RSign(RSub(x, y)) < 0

RLe(x, y) == ~IsRaised(x) /\ ~IsRaised(y) /\ RSign(RSub(x, y)) <= 0

RMax(x, y) == IF RLt(x, y) THEN y ELSE x

RMin(x, y) == IF RLt(y, x) THEN y ELSE x

\* ------------------------------------------------------ Optional[float]

None == [known |-> FALSE, v |-> Zero]

Some(x) == [known |-> TRUE, v |-> x]

\* Python's `not x` for an Optional[float]: None and 0.0 are falsy.
Falsy(x) == ~x.known \/ x.v.n = 0

\* Python's `a or b`.
Or(a, b) == IF Falsy(a) THEN b ELSE a

\* ------------------------------------------------------------- records

\* plugins Quote: price and shares_outstanding (ticker and currency are not
\* read by the valuation functions).
Quote(price, shares) == [price |-> price, shares_outstanding |-> shares]

\* plugins Fundamentals: the fields the valuation functions read.
Fundamentals(pe, pb, roe, fcf) ==
    [trailing_pe |-> pe, price_to_book |-> pb, roe |-> roe, roa |-> None,
     debt_to_equity |-> None, free_cash_flow |-> fcf]

\* models DCFParams.
DCFParams(r, g, years, tg) ==
    [discount_rate |-> r, long_term_growth |-> g, years |-> years,
     terminal_growth |-> tg]

NoQuote == Quote(None, None)

NoFundamentals == Fundamentals(None, None, None, None)

\* DCFParams(): the dataclass defaults.
DefaultParams == DCFParams(Rat(1, 10), Rat(1, 50), 10, None)

\* ----------------------------------------------------------------- DCF

\* The loop of _calculate_present_value_cash_flows, years 1..year.
RECURSIVE PvLoop(_, _, _, _)
PvLoop(initial_fcf, growth_rate, discount_rate, year) ==
    IF year <= 0 THEN Zero
    ELSE LET projected_fcf == RMul(initial_fcf, RPow(RAdd(One, growth_rate), year))
             pv == RDiv(projected_fcf, RPow(RAdd(One, discount_rate), year))
         IN  RAdd(PvLoop(initial_fcf, growth_rate, discount_rate, year - 1), pv)

\* A projection that compounds by the discount rate instead of discounting.
RECURSIVE PvLoop_Compounded(_, _, _, _)
PvLoop_Compounded(initial_fcf, growth_rate, discount_rate, year) ==
    IF year <= 0 THEN Zero
    ELSE LET projected_fcf == RMul(initial_fcf, RPow(RAdd(One, growth_rate), year))
             pv == RMul(projected_fcf, RPow(RAdd(One, discount_rate), year))
         IN  RAdd(PvLoop_Compounded(initial_fcf, growth_rate, discount_rate, year - 1), pv)

_calculate_present_value_cash_flows(initial_fcf, growth_rate, discount_rate, years) ==
    PvLoop(initial_fcf, growth_rate, discount_rate, years)

_calculate_terminal_value(initial_fcf, growth_rate, terminal_growth, discount_rate, years) ==
    LET terminal_fcf == RMul(initial_fcf, RPow(RAdd(One, growth_rate), years))
        terminal_value ==
            RDiv(RMul(terminal_fcf, RAdd(One, terminal_growth)),
                 RSub(discount_rate, terminal_growth))
    IN  RDiv(terminal_value, RPow(RAdd(One, discount_rate), years))

\* What a call returns or raises.  per_share, total: the tuple returned by
\* calculate_dcf_value; terminal_growth: its local of line 29 (None when the
\* call returned before resolving it); value: the Optional[float] returned
\* by the other functions.
Result(raised, per_share, total, tg, value) ==
    [raised |-> raised, per_share |-> per_share, total |-> total,
     terminal_growth |-> tg, value |-> value]

DcfResult(per_share, total, tg) == Result(FALSE, per_share, total, tg, None)

LabelResult(label) ==
    [raised |-> FALSE, per_share |-> None, total |-> None, terminal_growth |-> None,
     value |-> None, label |-> label]

ValueResult(value) ==
    IF value.known /\ IsRaised(value.v) THEN Result(TRUE, None, None, None, None)
    ELSE Result(FALSE, None, None, None, value)

\* dcf.py line 25: `if not fundamentals.free_cash_flow`.
FcfMissing_OnlyZero(f) == f.free_cash_flow.known /\ f.free_cash_flow.v.n = 0

FcfMissing(f) == Falsy(f.free_cash_flow)

\* dcf.py line 29: `params.terminal_growth or params.long_term_growth`.
ResolveTerminalGrowth(p) == Or(p.terminal_growth, Some(p.long_term_growth)).v

\* dcf.py line 32: `terminal_growth >= params.discount_rate`.
TerminalGrowthInvalid_Strict(terminal_growth, p) == RLt(p.discount_rate, terminal_growth)

TerminalGrowthInvalid(terminal_growth, p) == RLe(p.discount_rate, terminal_growth)

\* dcf.py line 57: `quote.shares_outstanding and quote.shares_outstanding > 0`.
SharesAvailable_Truthy(q) == ~Falsy(q.shares_outstanding)

SharesAvailable(q) ==
    ~Falsy(q.shares_outstanding) /\ RLt(Zero, q.shares_outstanding.v)

calculate_dcf_value(q, f, p) ==
    IF FcfMissing(f) THEN DcfResult(None, None, None)
    ELSE
    LET terminal_growth == ResolveTerminalGrowth(p)
    IN  IF TerminalGrowthInvalid(terminal_growth, p)
        THEN DcfResult(None, None, Some(terminal_growth))
        ELSE
        LET pv_cash_flows ==
                _calculate_present_value_cash_flows(
                    f.free_cash_flow.v, p.long_term_growth, p.discount_rate, p.years)
            terminal_value ==
                _calculate_terminal_value(
                    f.free_cash_flow.v, p.long_term_growth, terminal_growth,
                    p.discount_rate, p.years)
            intrinsic_value_total == RAdd(pv_cash_flows, terminal_value)
            intrinsic_value_per_share ==
                IF SharesAvailable(q)
                THEN Some(RDiv(intrinsic_value_total, q.shares_outstanding.v))
                ELSE None
        IN  IF IsRaised(intrinsic_value_total)
               \/ (intrinsic_value_per_share.known /\ IsRaised(intrinsic_value_per_share.v))
            THEN Result(TRUE, None, None, Some(terminal_growth), None)
            ELSE DcfResult(intrinsic_value_per_share, Some(intrinsic_value_total),
                           Some(terminal_growth))

\* dcf.py lines 103-120.
calculate_margin_of_safety(current_price, intrinsic_value_per_share) ==
    IF Falsy(current_price) \/ Falsy(intrinsic_value_per_share)
       \/ RLe(intrinsic_value_per_share.v, Zero)
    THEN None
    ELSE Some(RDiv(RSub(intrinsic_value_per_share.v, current_price.v),
                   intrinsic_value_per_share.v))

\* -------------------------------------------------------------- ratios

\* ratios.py lines 8-29 without the market_cap <= 0 test of line 24.
calculate_fcf_yield_AnyMarketCap(q, f) ==
    IF Falsy(q.price) \/ Falsy(q.shares_outstanding) \/ Falsy(f.free_cash_flow)
    THEN None
    ELSE Some(RDiv(f.free_cash_flow.v, RMul(q.price.v, q.shares_outstanding.v)))

\* ratios.py lines 8-29.
calculate_fcf_yield(q, f) ==
    IF Falsy(q.price) \/ Falsy(q.shares_outstanding) \/ Falsy(f.free_cash_flow)
    THEN None
    ELSE LET market_cap == RMul(q.price.v, q.shares_outstanding.v)
         IN  IF RLe(market_cap, Zero) THEN None
             ELSE Some(RDiv(f.free_cash_flow.v, market_cap))

\* ------------------------------------------------------------- scoring

\* scoring.py lines 70-79.
_calculate_fcf_yield_for_scoring(q, f) ==
    IF Falsy(q.price) \/ Falsy(q.shares_outstanding) \/ Falsy(f.free_cash_flow)
    THEN None
    ELSE LET market_cap == RMul(q.price.v, q.shares_outstanding.v)
         IN  IF RLe(market_cap, Zero) THEN None
             ELSE Some(RDiv(f.free_cash_flow.v, market_cap))

\* ratios.py lines 32-42.
calculate_price_to_earnings(q, f) == f.trailing_pe

\* ratios.py lines 45-55.
calculate_price_to_book(q, f) == f.price_to_book

\* ratios.py lines 58-68.
calculate_debt_to_equity(q, f) == f.debt_to_equity

\* A pass-through written with a truthiness test, as the FCF yield is.
calculate_return_on_equity_Truthy(q, f) == IF Falsy(f.roe) THEN None ELSE f.roe

\* ratios.py lines 71-81.
calculate_return_on_equity(q, f) == f.roe

\* ratios.py lines 84-94.
calculate_return_on_assets(q, f) == f.roa

\* The five values a caller of the pass-through functions gets.
RatiosResult(pe, pb, dte, roe, roa) ==
    [raised |-> FALSE, price_to_earnings |-> pe, price_to_book |-> pb,
     debt_to_equity |-> dte, return_on_equity |-> roe, return_on_assets |-> roa]

\* min(100, max(0, x)) of scoring.py lines 30, 36, 43, 49.
Clamp_Unclamped(x) == x

Clamp(x) == RMin(Hundred, RMax(Zero, x))

\* scoring.py line 48: `fundamentals.roe is not None`.
RoeAvailable(f) == f.roe.known

\* Python's round(x, 2): the nearest hundredth, a tie to the even one.
Round2(x) ==
    LET m == 100 * x.n
        fl == m \div x.d
        rem == m % x.d
        up == \/ 2 * rem > x.d
              \/ 2 * rem = x.d /\ fl % 2 = 1
    IN  Rat(IF up THEN fl + 1 ELSE fl, 100)

Signal(score, weight) == [score |-> score, weight |-> weight]

\* scoring.py lines 25-51: the (score, weight) pairs appended, in order.
Signals(q, f, s) ==
    LET fcf_yield == _calculate_fcf_yield_for_scoring(q, f)
    IN  (IF ~Falsy(f.trailing_pe) /\ RLt(Zero, f.trailing_pe.v)
         THEN <<Signal(Clamp(RSub(Hundred, RMul(f.trailing_pe.v, Int2Rat(2)))),
                       s.pe_weight)>>
         ELSE <<>>)
        \o (IF ~Falsy(f.price_to_book) /\ RLt(Zero, f.price_to_book.v)
            THEN <<Signal(Clamp(RSub(Hundred, RMul(f.price_to_book.v, Int2Rat(20)))),
                          s.pb_weight)>>
            ELSE <<>>)
        \o (IF fcf_yield.known
            THEN <<Signal(Clamp(RMul(fcf_yield.v, Int2Rat(1000))), s.fcf_yield_weight)>>
            ELSE <<>>)
        \o (IF RoeAvailable(f)
            THEN <<Signal(Clamp(RMul(f.roe.v, Hundred)), s.roe_weight)>>
            ELSE <<>>)

\* sum(weights), scoring.py line 58.
RECURSIVE SumWeights(_)
SumWeights(sigs) ==
    IF sigs = <<>> THEN Zero
    ELSE RAdd(Head(sigs).weight, SumWeights(Tail(sigs)))

\* scoring.py lines 62-65: sum(score * (w / total_weight)).
RECURSIVE WeightedSum(_, _)
WeightedSum(sigs, total_weight) ==
    IF sigs = <<>> THEN Zero
    ELSE RAdd(RMul(Head(sigs).score, RDiv(Head(sigs).weight, total_weight)),
              WeightedSum(Tail(sigs), total_weight))

\* scoring.py lines 9-67, reading the module-level settings.
calculate_value_score(q, f, s) ==
    LET sigs == Signals(q, f, s)
        total_weight == SumWeights(sigs)
    IN  IF sigs = <<>> THEN None
        ELSE IF total_weight = Zero THEN None
        ELSE Some(Round2(WeightedSum(sigs, total_weight)))

\* `score >= bound` of scoring.py lines 91, 93, 95 and 97.
AtLeast_Strict(score, bound) == RLt(Int2Rat(bound), score)

AtLeast(score, bound) == RLe(Int2Rat(bound), score)

\* scoring.py lines 82-100.
get_value_score_interpretation(score) ==
    IF AtLeast(score, 80) THEN "Excellent Value"
    ELSE IF AtLeast(score, 60) THEN "Good Value"
    ELSE IF AtLeast(score, 40) THEN "Fair Value"
    ELSE IF AtLeast(score, 20) THEN "Poor Value"
    ELSE "Very Poor Value"

\* ------------------------------------------------------------- engine

\* models ValuationResult (the ticker is copied from the quote).
ValuationResult(ivps, total, mos, score, fcf_yield, f) ==
    [raised |-> FALSE, intrinsic_value_per_share |-> ivps,
     intrinsic_value_total |-> total, margin_of_safety |-> mos,
     value_score |-> score, fcf_yield |-> fcf_yield, pe_ratio |-> f.trailing_pe,
     pb_ratio |-> f.price_to_book, roe |-> f.roe,
     debt_to_equity |-> f.debt_to_equity]

FailedValuation == [raised |-> TRUE]

\* engine.py line 32: `if quote.price and intrinsic_value_per_share`.
MarginInputsPresent_Inverted(q, intrinsic_value_per_share) ==
    Falsy(q.price) \/ Falsy(intrinsic_value_per_share)

MarginInputsPresent(q, intrinsic_value_per_share) ==
    ~Falsy(q.price) /\ ~Falsy(intrinsic_value_per_share)

\* engine.py lines 10-52, reading the module-level settings through
\* calculate_value_score.
calculate_comprehensive_valuation(q, f, p, s) ==
    LET dcf == calculate_dcf_value(q, f, p)
        margin_of_safety ==
            IF MarginInputsPresent(q, dcf.per_share)
            THEN calculate_margin_of_safety(q.price, dcf.per_share)
            ELSE None
        fcf_yield == calculate_fcf_yield(q, f)
        value_score == calculate_value_score(q, f, s)
    IN  IF dcf.raised THEN FailedValuation
        ELSE ValuationResult(dcf.per_share, dcf.total, margin_of_safety, value_score,
                             fcf_yield, f)

\* engine.py lines 55-75, given what the data source returned for the ticker.
analyze_stock(q, f, p, s) == calculate_comprehensive_valuation(q, f, p, s)

\* ----------------------------------------------------------- registry

\* Python's `a < b` on str: a name is the sequence of its code points,
\* compared position by position, a proper prefix first.
RECURSIVE StrLess(_, _)
StrLess(a, b) ==
    IF b = <<>> THEN FALSE
    ELSE IF a = <<>> THEN TRUE
    ELSE IF Head(a) # Head(b) THEN Head(a) < Head(b)
    ELSE StrLess(Tail(a), Tail(b))

\* A dict is the sequence of its (key, value) entries in insertion order.
DictHas(d, key) == \E i \in 1..Len(d) : d[i].key = key

DictKeys(d) == [i \in 1..Len(d) |-> d[i].key]

\* d[key] = value keeps the first registration: setdefault, not assignment.
DictSet_KeepFirst(d, key, value) ==
    IF DictHas(d, key) THEN d ELSE Append(d, [key |-> key, value |-> value])

\* d[key] = value: the entry of an existing key is overwritten in place, a
\* new key is appended.
DictSet(d, key, value) ==
    IF DictHas(d, key)
    THEN [i \in 1..Len(d) |-> IF d[i].key = key THEN [key |-> key, value |-> value]
                                                ELSE d[i]]
    ELSE Append(d, [key |-> key, value |-> value])

KeyError(message) == [raised |-> TRUE, error |-> "KeyError", message |-> message]

\* d[key]: the value, or KeyError(key).
DictGet(d, key) ==
    IF DictHas(d, key)
    THEN [raised |-> FALSE, value |-> d[CHOOSE i \in 1..Len(d) : d[i].key = key].value]
    ELSE KeyError(<<key>>)

\* sorted(xs) left as the iteration order of the dict.
sorted_InsertionOrder(xs) == xs

\* sorted(xs) on strings: ascending, equal elements kept in their order.
RECURSIVE sorted(_)
sorted(xs) ==
    IF xs = <<>> THEN <<>>
    ELSE LET rest == sorted(Tail(xs))
             x == Head(xs)
             before == SelectSeq(rest, LAMBDA y : StrLess(y, x))
             after == SelectSeq(rest, LAMBDA y : ~StrLess(y, x))
         IN  before \o <<x>> \o after

\* Rebinding the registry instead of storing into it: every other name is lost.
register_source_Rebind(registry, source) ==
    <<[key |-> source.name, value |-> source]>>

\* plugins lines 51-53: the registry after register_source(source).
register_source(registry, source) == DictSet(registry, source.name, source)

\* plugins line 58: `name not in _REGISTRY`, as a test that never holds.
NotRegistered_Never(registry, name) == FALSE

NotRegistered(registry, name) == ~DictHas(registry, name)

\* plugins lines 56-60.
get_source(registry, name) ==
    IF NotRegistered(registry, name)
    THEN KeyError(<<"Unknown data source: ", name>>)
    ELSE DictGet(registry, name)

\* plugins lines 63-65.
list_sources(registry) == [raised |-> FALSE, value |-> sorted(DictKeys(registry))]

\* -------------------------------------------------------------- inputs

FcfValues ==
    {None, Some(Int2Rat(0)), Some(Int2Rat(-2)), Some(Int2Rat(1)), Some(Int2Rat(3))}

PriceValues == {None, Some(Int2Rat(0)), Some(Int2Rat(4))}

PeValues ==
    {None, Some(Int2Rat(0)), Some(Int2Rat(10)), Some(Int2Rat(50)), Some(Int2Rat(60))}

PbValues == {None, Some(Int2Rat(1)), Some(Int2Rat(10))}

RoeValues == {None, Some(Int2Rat(0)), Some(Rat(1, 20)), Some(Rat(1, 5))}

\* Quotes of the scorer's calls: no data, a positive market cap, a zero price
\* and a negative share count.
ScoreQuotes ==
    {Quote(None, None), Quote(Some(Int2Rat(4)), Some(Int2Rat(5))),
     Quote(Some(Int2Rat(0)), Some(Int2Rat(5))), Quote(Some(Int2Rat(4)), Some(Int2Rat(-2)))}

ScoreFcfValues == {None, Some(Int2Rat(0)), Some(Int2Rat(-2)), Some(Int2Rat(1))}

\* Values a configured weight takes (config.py puts no constraint on them).
WeightValues == {Rat(-1, 10), Zero, Rat(3, 10)}

\* Arguments of calculate_margin_of_safety (tests/test_dcf.py lines 86-110).
CurrentPrices ==
    {None, Some(Int2Rat(0)), Some(Int2Rat(80)), Some(Int2Rat(100)), Some(Int2Rat(120))}

IntrinsicValues == {None, Some(Int2Rat(0)), Some(Int2Rat(-100)), Some(Int2Rat(100))}

SharesValues == {None, Some(Int2Rat(0)), Some(Int2Rat(-2)), Some(Int2Rat(5))}

\* discount_rate > 0 (the data model's requirement on DCFParams).
DiscountRates == {Rat(1, 4), Rat(1, 2), Int2Rat(1)}

GrowthRates == {Int2Rat(-2), Int2Rat(-1), Rat(-1, 2), Zero, Rat(1, 4), Rat(1, 2)}

TerminalGrowths == {None} \cup {Some(g) : g \in GrowthRates}

\* Scores handed to get_value_score_interpretation: the bucket bounds, their
\* neighbours on both sides and values outside 0..100.
InterpretationScores ==
    {Int2Rat(-1), Zero, Int2Rat(19), Rat(1999, 100), Int2Rat(20), Int2Rat(39),
     Rat(3999, 100), Int2Rat(40), Int2Rat(59), Rat(5999, 100), Int2Rat(60),
     Int2Rat(79), Rat(7999, 100), Int2Rat(80), Rat(8001, 100), Hundred,
     Int2Rat(101)}

\* Field values handed to the pass-through ratio functions.
RatioValues == {None, Some(Int2Rat(0)), Some(Int2Rat(-1)), Some(Rat(3, 2))}

\* What a data source returns to the engine.
EnginePeValues == {None, Some(Int2Rat(10))}

EnginePbValues == {None, Some(Int2Rat(1))}

EngineRoeValues == {None, Some(Int2Rat(0)), Some(Rat(1, 5))}

EngineDebtValues == {None, Some(Int2Rat(0)), Some(Rat(3, 2))}

\* DCFParams of the engine's callers: terminal growth below, at and above
\* the discount rate.
EngineParams ==
    {DCFParams(Rat(1, 4), g, y, None) : g \in {Zero, Rat(1, 4), Rat(1, 2)},
                                        y \in 1..MaxYears}

\* Names of data sources: "a", "ab" and "b" as code points.
SourceNames == {<<97>>, <<97, 98>>, <<98>>}

\* Data source objects: two of them carry the same name.
Sources ==
    {[id |-> 1, name |-> <<97>>], [id |-> 2, name |-> <<97>>],
     [id |-> 3, name |-> <<97, 98>>], [id |-> 4, name |-> <<98>>]}

\* Horizons that are not positive.
NonPositiveYears == {-2, -1, 0}

\* ------------------------------------------------------- data sources

\* str.upper() on a ticker, a sequence of code points.
Upper(s) == [i \in 1..Len(s) |-> IF s[i] >= 97 /\ s[i] <= 122 THEN s[i] - 32 ELSE s[i]]

\* A Quote as a provider returns it, with its ticker.
QuoteOf(ticker, price, shares) ==
    [kind |-> "Quote", ticker |-> ticker, price |-> price, shares_outstanding |-> shares]

\* A Fundamentals as a provider returns it, with its ticker; pe and fcf stand
\* for the fields read from the upstream answer.
FundamentalsOf(ticker, pe, fcf) ==
    [kind |-> "Fundamentals", ticker |-> ticker, trailing_pe |-> pe,
     price_to_book |-> None, roe |-> None, roa |-> None, debt_to_equity |-> None,
     free_cash_flow |-> fcf]

\* Python's None returned in place of a record.
NullRecord == [kind |-> "None"]

\* The answer of the upstream service to a quote request: the request failed
\* (status "error"), it answered without data ("empty"), or it answered with
\* a price and a share count, either of which may be missing.
UpstreamQuotes ==
    {[status |-> "error", price |-> None, shares |-> None],
     [status |-> "empty", price |-> None, shares |-> None]}
    \cup {[status |-> "ok", price |-> p, shares |-> sh] :
            p \in {None, Some(Zero), Some(Int2Rat(10))},
            sh \in {None, Some(Int2Rat(5))}}

\* The answer of the upstream service to the fundamentals requests.
UpstreamFundamentals ==
    {[status |-> "error", pe |-> None, fcf |-> None],
     [status |-> "empty", pe |-> None, fcf |-> None]}
    \cup {[status |-> "ok", pe |-> pe, fcf |-> fcf] :
            pe \in {None, Some(Int2Rat(10))},
            fcf \in {None, Some(Zero), Some(Int2Rat(1))}}

\* yf_source.py lines 16-29: info.get('currentPrice') or
\* info.get('regularMarketPrice'), the latter absent upstream.
YahooFinanceSource_get_quote(ticker, upstream) ==
    IF upstream.status = "error" THEN QuoteOf(Upper(ticker), None, None)
    ELSE QuoteOf(Upper(ticker), Or(upstream.price, None), upstream.shares)

\* yf_source.py lines 32-74, the financial statements empty.
YahooFinanceSource_get_fundamentals(ticker, upstream) ==
    IF upstream.status = "error" THEN FundamentalsOf(Upper(ticker), None, None)
    ELSE FundamentalsOf(Upper(ticker), upstream.pe, upstream.fcf)

\* fmp_source.py lines 25-47.
FMPSource_get_quote(ticker, upstream) ==
    IF upstream.status = "error" THEN QuoteOf(Upper(ticker), None, None)
    ELSE IF upstream.status = "empty" THEN QuoteOf(Upper(ticker), None, None)
    ELSE QuoteOf(Upper(ticker), upstream.price, upstream.shares)

\* fmp_source.py lines 50-99.
FMPSource_get_fundamentals(ticker, upstream) ==
    IF upstream.status = "error" THEN FundamentalsOf(Upper(ticker), None, None)
    ELSE FundamentalsOf(Upper(ticker), upstream.pe, upstream.fcf)

\* sec_source.py lines 26-30.
SECSource_get_quote(ticker, upstream) == QuoteOf(Upper(ticker), None, None)

\* sec_source.py lines 84-89: the mapping is not implemented.
_get_cik_from_ticker(ticker) == NullRecord

\* sec_source.py lines 108-118.
_empty_fundamentals(ticker) == FundamentalsOf(Upper(ticker), None, None)

\* sec_source.py lines 33-82: with no CIK the upstream service is not asked.
SECSource_get_fundamentals(ticker, upstream) ==
    IF _get_cik_from_ticker(ticker) = NullRecord THEN _empty_fundamentals(ticker)
    ELSE IF upstream.status = "error" THEN _empty_fundamentals(ticker)
    ELSE FundamentalsOf(Upper(ticker), upstream.pe, upstream.fcf)

\* finnhub_source.py line 41: `not quote_data or quote_data.get('c') is None
\* or quote_data.get('c') == 0`.
NoValidQuote(upstream) ==
    upstream.status = "empty" \/ ~upstream.price.known \/ upstream.price.v.n = 0

\* finnhub_source.py lines 26-63.
FinnhubSource_get_quote(ticker, upstream) ==
    IF upstream.status = "error" THEN NullRecord
    ELSE IF NoValidQuote(upstream) THEN NullRecord
    ELSE QuoteOf(ticker, upstream.price, upstream.shares)

\* finnhub_source.py lines 97-109: Fundamentals(...) is called with the
\* keyword forward_pe, which the dataclass (plugins lines 18-31) does not
\* have, so the constructor raises TypeError on every path.
FundamentalsConstructorRaises == TRUE

\* finnhub_source.py lines 65-112: `except Exception: return None`.
FinnhubSource_get_fundamentals(ticker, upstream) ==
    IF upstream.status = "error" \/ FundamentalsConstructorRaises THEN NullRecord
    ELSE FundamentalsOf(ticker, upstream.pe, upstream.fcf)

Providers == {"yfinance", "fmp", "sec", "finnhub"}

\* Tickers as callers write them: "a", "A", "Ab".
Tickers == {<<97>>, <<65>>, <<65, 98>>}

\* source.get_quote(ticker) of the named provider.
get_quote(provider, ticker, upstream) ==
    CASE provider = "yfinance" -> YahooFinanceSource_get_quote(ticker, upstream)
      [] provider = "fmp" -> FMPSource_get_quote(ticker, upstream)
      [] provider = "sec" -> SECSource_get_quote(ticker, upstream)
      [] provider = "finnhub" -> FinnhubSource_get_quote(ticker, upstream)

\* source.get_fundamentals(ticker) of the named provider.
get_fundamentals(provider, ticker, upstream) ==
    CASE provider = "yfinance" -> YahooFinanceSource_get_fundamentals(ticker, upstream)
      [] provider = "fmp" -> FMPSource_get_fundamentals(ticker, upstream)
      [] provider = "sec" -> SECSource_get_fundamentals(ticker, upstream)
      [] provider = "finnhub" -> FinnhubSource_get_fundamentals(ticker, upstream)

\* The exception a data source raises when its request fails.
SourceError == [raised |-> TRUE, error |-> "ConnectionError"]

\* What a data source answers to the engine for a ticker when its request
\* succeeds: the quote and the fundamentals of "A", and those of any other
\* ticker.
SourceAnswers(ticker) ==
    IF ticker = <<65>>
    THEN [get_quote |-> Quote(Some(Int2Rat(10)), Some(Int2Rat(5))),
          get_fundamentals |-> Fundamentals(Some(Int2Rat(10)), None, None,
                                            Some(Int2Rat(1)))]
    ELSE [get_quote |-> Quote(Some(Int2Rat(4)), None),
          get_fundamentals |-> Fundamentals(None, None, Some(Rat(1, 5)), None)]

\* The callers of analyze_stock: a ticker and DCFParams.
Callers ==
    {[ticker |-> t, params |-> DCFParams(Rat(1, 4), Zero, 1, None)] :
        t \in {<<65>>, <<65, 98>>}}

\* Catching the exception and asking again.
AfterRaise_Retry(pc) == pc

\* engine.py lines 71-72: neither call is inside a try, so an exception of
\* the data source ends the call.
AfterRaise(pc) == "done"

\* --------------------------------------------------------- command line

\* cli.py line 75: the default of --source, here the name "b".
DefaultSource == <<98>>

\* The numeric arguments of a run: one that passes validation, and one for
\* each test of cli.py lines 113-125 that fails.
CliNumbers ==
    {[growth |-> g, discount |-> d, years |-> y, terminal |-> tg] :
        g \in {Rat(1, 50)}, d \in {Rat(1, 10)}, y \in {10},
        tg \in {None, Some(Rat(1, 50)), Some(Rat(-1, 100)), Some(Rat(1, 10))}}
    \cup {[growth |-> g, discount |-> Rat(1, 10), years |-> 10, terminal |-> None] :
            g \in {Rat(-1, 100), Rat(3, 2)}}
    \cup {[growth |-> Rat(1, 50), discount |-> d, years |-> 10, terminal |-> None] :
            d \in {Zero, Rat(3, 2)}}
    \cup {[growth |-> Rat(1, 50), discount |-> Rat(1, 10), years |-> 0, terminal |-> None]}

\* The ticker lists of a run: "a" and "A", up to MaxTickers of them.
TickerLists ==
    UNION {[1..n -> {<<97>>, <<65>>}] : n \in 0..MaxTickers}

\* cli.py lines 72-83 and 110: parse_args() leaves the process with status 2
\* when --source names none of list_sources() (the default is not checked
\* against the choices) or when --ticker has no value.
parse_args_rejects(argv, registry) ==
    \/ /\ argv.source_given
       /\ \A i \in 1..Len(list_sources(registry).value) :
            list_sources(registry).value[i] # argv.source
    \/ argv.ticker = <<>>

\* cli.py lines 113-127.
ValidationFails(argv) ==
    \/ RLt(argv.growth, Zero) \/ RLt(One, argv.growth)
    \/ RLe(argv.discount, Zero) \/ RLt(One, argv.discount)
    \/ argv.years <= 0
    \/ /\ argv.terminal.known
       /\ RLt(argv.terminal.v, Zero) \/ RLe(argv.discount, argv.terminal.v)

\* A run that returns whatever happened to the tickers.
ExitCode_AlwaysZero(errors) == 0

\* cli.py line 169: return 1 if errors else 0.
ExitCode(errors) == IF errors # <<>> THEN 1 ELSE 0

\* cli.py lines 150-156: the loop over args.ticker from position i on;
\* outcomes[i] tells whether analyze_stock returned or raised for the i-th
\* ticker. analysed lists the tickers handed to analyze_stock.
RECURSIVE AnalyzeEach(_, _, _, _)
AnalyzeEach(tickers, outcomes, i, acc) ==
    IF i > Len(tickers) THEN acc
    ELSE AnalyzeEach(tickers, outcomes, i + 1,
            IF outcomes[i] = "ok"
            THEN [acc EXCEPT !.analysed = Append(@, Upper(tickers[i])),
                             !.results = Append(@, [ticker |-> Upper(tickers[i])])]
            ELSE [acc EXCEPT !.analysed = Append(@, Upper(tickers[i])),
                             !.errors = Append(@, tickers[i])])

\* A run that ends before any ticker is analysed.
Exit(code) == [exit_code |-> code, analysed |-> <<>>, results |-> <<>>, errors |-> <<>>]

\* cli.py lines 58-169.
main(argv, registry, outcomes) ==
    IF parse_args_rejects(argv, registry) THEN Exit(2)
    ELSE IF ValidationFails(argv) THEN Exit(1)
    ELSE IF get_source(registry, argv.source).raised THEN Exit(1)
    ELSE LET run == AnalyzeEach(argv.ticker, outcomes, 1, Exit(0))
         IN  [run EXCEPT !.exit_code = ExitCode(run.errors)]

\* ---------------------------------------------------------- Mongo cache

\* "|".join(parts) on strings as sequences of code points ("|" is 124).
RECURSIVE Join(_)
Join(parts) ==
    IF Len(parts) = 1 THEN parts[1]
    ELSE parts[1] \o <<124>> \o Join(Tail(parts))

\* mongodb_cache.py lines 70-80 with no params: the MD5 digest of the joined
\* string, which stands for its digest here.
_generate_cache_key(source, ticker, endpoint) == Join(<<source, ticker, endpoint>>)

\* Requests to the cache: source "a", endpoint "q", tickers "t" and "u|q",
\* and the request ("a|u", "q", "q"), whose joined string is that of
\* ("a", "u|q", "q").
Requests ==
    {[source |-> <<97>>, ticker |-> <<116>>, endpoint |-> <<113>>],
     [source |-> <<97>>, ticker |-> <<117, 124, 113>>, endpoint |-> <<113>>],
     [source |-> <<97, 124, 117>>, ticker |-> <<113>>, endpoint |-> <<113>>]}

\* Payloads: 0 is the empty dict, 1 and 2 are non-empty dicts.
Payloads == {1, 2}

\* ttl_hours of a set.
TtlHours == {0, 24}

\* collection.find_one({"cache_key": key}): the position of the first
\* document with the key, 0 if there is none.
find_one(coll, key) ==
    IF \E i \in 1..Len(coll) : coll[i].cache_key = key
    THEN CHOOSE i \in 1..Len(coll) :
            /\ coll[i].cache_key = key
            /\ \A j \in 1..(i - 1) : coll[j].cache_key # key
    ELSE 0

\* collection.delete_one({"cache_key": key}).
delete_one(coll, key) ==
    LET i == find_one(coll, key)
    IN  IF i = 0 THEN coll
        ELSE [j \in 1..(Len(coll) - 1) |-> IF j < i THEN coll[j] ELSE coll[j + 1]]

\* collection.replace_one({"cache_key": key}, doc, upsert=True).
replace_one(coll, key, doc) ==
    LET i == find_one(coll, key)
    IN  IF i = 0 THEN Append(coll, doc) ELSE [coll EXCEPT ![i] = doc]

\* An entry that never expires.
Expired_Never(doc, t) == FALSE

\* mongodb_cache.py line 107: cached_doc["expires_at"] < datetime.utcnow().
Expired(doc, t) == doc.expires_at < t

\* What get returns when it returns None.
NotFound == [found |-> FALSE, data |-> 0, expires_at |-> 0]

\* mongodb_cache.py lines 82-128 at time t; ok is false when the store
\* raises, which the except branch turns into None.
MongoDBCache_get(coll, t, req, ok) ==
    LET key == _generate_cache_key(req.source, req.ticker, req.endpoint)
        i == find_one(coll, key)
    IN  IF ~ok \/ i = 0 THEN [collection |-> coll, value |-> NotFound]
        ELSE IF Expired(coll[i], t)
        THEN [collection |-> delete_one(coll, key), value |-> NotFound]
        ELSE [collection |-> coll,
              value |-> [found |-> TRUE, data |-> coll[i].data,
                         expires_at |-> coll[i].expires_at]]

\* mongodb_cache.py lines 130-180 at time t: True when the document was
\* stored, False from the except branch.
MongoDBCache_set(coll, t, req, data, ttl_hours, ok) ==
    LET key == _generate_cache_key(req.source, req.ticker, req.endpoint)
    IN  IF ~ok THEN [collection |-> coll, value |-> FALSE]
        ELSE [collection |-> replace_one(coll, key,
                                 [cache_key |-> key, data |-> data,
                                  expires_at |-> t + ttl_hours]),
              value |-> TRUE]

\* mongodb_cache.py lines 182-211.
MongoDBCache_delete(coll, req, ok) ==
    LET key == _generate_cache_key(req.source, req.ticker, req.endpoint)
    IN  IF ~ok THEN [collection |-> coll, value |-> FALSE]
        ELSE [collection |-> delete_one(coll, key),
              value |-> find_one(coll, key) # 0]

\* A fetch that stores whatever it got.
NonEmpty_Always(data) == TRUE

\* dashboard_utils.py line 361: `if data:`.
NonEmpty(data) == data # 0

\* dashboard_utils.py lines 345-364 (and 367-386, with its own source name)
\* at time t: fetched is what the upstream fetch returns if it is performed,
\* 0 for the empty dict of a failed fetch; get_ok and set_ok are false when
\* the store raises inside cache.get or cache.set.
get_cached_alpha_vantage_data(coll, t, ticker, force_refresh, fetched, get_ok, set_ok) ==
    LET req == [source |-> <<97>>, ticker |-> ticker, endpoint |-> <<113>>]
        lookup == IF force_refresh THEN [collection |-> coll, value |-> NotFound]
                  ELSE MongoDBCache_get(coll, t, req, get_ok)
        stored == MongoDBCache_set(lookup.collection, t, req, fetched, 24, set_ok)
    IN  IF lookup.value.found
        THEN [collection |-> coll, value |-> lookup.value.data,
              fetch_performed |-> FALSE, set_called |-> FALSE]
        ELSE IF NonEmpty(fetched)
        THEN [collection |-> stored.collection, value |-> fetched,
              fetch_performed |-> TRUE, set_called |-> TRUE]
        ELSE [collection |-> lookup.collection, value |-> fetched,
              fetch_performed |-> TRUE, set_called |-> FALSE]

\* ------------------------------------------------------------ event bus

\* Callbacks by what they do when called: return, raise an Exception, or
\* raise a BaseException that is no Exception (SystemExit,
\* KeyboardInterrupt, the script-control exceptions of st.rerun and st.stop).
Callbacks ==
    {[id |-> 1, does |-> "returns"], [id |-> 2, does |-> "raises"],
     [id |-> 3, does |-> "exits"]}

\* event_system.py lines 54-58, two of the types.
EventTypes == {"ticker_changed", "data_fetch_requested"}

\* self.subscribers[event_type], the empty list if the type has no entry.
CallbacksOf(subs, event_type) ==
    IF DictHas(subs, event_type) THEN DictGet(subs, event_type).value ELSE <<>>

\* event_system.py lines 25-30.
subscribe(subs, event_type, callback) ==
    DictSet(subs, event_type, Append(CallbacksOf(subs, event_type), callback))

\* A try with no handler that matches.
Caught_Nothing(does) == FALSE

\* event_system.py line 41: `except Exception` handles what is raised as an
\* Exception and nothing else.
Caught(does) == does = "raises"

\* event_system.py lines 38-42: the loop from the i-th callback on; trace
\* lists the steps taken so far.
RECURSIVE Deliver(_, _, _)
Deliver(callbacks, i, trace) ==
    IF i > Len(callbacks) THEN [raised |-> FALSE, trace |-> trace]
    ELSE LET called == Append(trace, [step |-> "call", callback |-> callbacks[i].id])
         IN  IF callbacks[i].does = "returns" \/ Caught(callbacks[i].does)
             THEN Deliver(callbacks, i + 1, called)
             ELSE [raised |-> TRUE, trace |-> called]

\* event_system.py lines 32-42.
publish(subs, history, event) ==
    LET delivered == Deliver(CallbacksOf(subs, event.event_type), 1,
                             <<[step |-> "append", callback |-> 0]>>)
    IN  [event_history |-> Append(history, event), raised |-> delivered.raised,
         trace |-> delivered.trace]

\* -------------------------------------------------------------- state

NoArgs == [current_price |-> None, intrinsic_value_per_share |-> None]

NoResult == DcfResult(None, None, None)

NoPrev ==
    [quote |-> NoQuote, fundamentals |-> NoFundamentals, params |-> DefaultParams,
     result |-> NoResult]

DefaultSettings == [pe_weight |-> Rat(3, 10), pb_weight |-> Rat(2, 10),
                    fcf_yield_weight |-> Rat(3, 10), roe_weight |-> Rat(2, 10)]

Init ==
    /\ settings = DefaultSettings
    /\ _REGISTRY = <<>>
    /\ calls = <<>>
    /\ tasks = <<>>
    /\ source_log = <<>>
    /\ collection = <<>>
    /\ now = 0
    /\ last_set = <<>>
    /\ subscribers = <<>>
    /\ event_history = <<>>
    /\ op = "none"
    /\ quote = NoQuote
    /\ fundamentals = NoFundamentals
    /\ params = DefaultParams
    /\ args = NoArgs
    /\ result = NoResult
    /\ prev = NoPrev

\* A caller invokes calculate_dcf_value(quote, fundamentals, params).
CallDcf ==
    \E fcf \in FcfValues, sh \in SharesValues, r \in DiscountRates,
       g \in GrowthRates, tg \in TerminalGrowths, y \in 1..MaxYears :
        /\ op = "none"
        /\ op' = "dcf"
        /\ quote' = Quote(None, sh)
        /\ fundamentals' = Fundamentals(None, None, None, fcf)
        /\ params' = DCFParams(r, g, y, tg)
        /\ args' = NoArgs
        /\ result' = calculate_dcf_value(quote', fundamentals', params')
        /\ prev' = NoPrev
        /\ UNCHANGED <<engine_calls, cache, bus, settings, _REGISTRY, calls>>

\* The caller repeats the DCF call with a higher discount rate and everything
\* else unchanged (tests/test_dcf.py, test_dcf_with_different_parameters).
CallDcfHigherRate ==
    \E r \in DiscountRates :
        /\ op = "dcf"
        /\ RLt(params.discount_rate, r)
        /\ op' = "dcf2"
        /\ params' = [params EXCEPT !.discount_rate = r]
        /\ prev' = [quote |-> quote, fundamentals |-> fundamentals, params |-> params,
                    result |-> result]
        /\ result' = calculate_dcf_value(quote, fundamentals, params')
        /\ UNCHANGED <<engine_calls, cache, bus, settings, _REGISTRY, calls, quote, fundamentals, args>>

\* A caller invokes calculate_dcf_value with params.years <= 0.
CallDcfNonPositiveYears ==
    \E fcf \in FcfValues, sh \in SharesValues, r \in DiscountRates,
       g \in GrowthRates, tg \in TerminalGrowths, y \in NonPositiveYears :
        /\ op = "none"
        /\ op' = "dcf"
        /\ quote' = Quote(None, sh)
        /\ fundamentals' = Fundamentals(None, None, None, fcf)
        /\ params' = DCFParams(r, g, y, tg)
        /\ args' = NoArgs
        /\ result' = calculate_dcf_value(quote', fundamentals', params')
        /\ prev' = NoPrev
        /\ UNCHANGED <<engine_calls, cache, bus, settings, _REGISTRY, calls>>

\* A caller invokes calculate_margin_of_safety(current_price, ivps).
CallMarginOfSafety ==
    \E cp \in CurrentPrices, iv \in IntrinsicValues :
        /\ op = "none"
        /\ op' = "mos"
        /\ args' = [current_price |-> cp, intrinsic_value_per_share |-> iv]
        /\ result' = ValueResult(calculate_margin_of_safety(cp, iv))
        /\ UNCHANGED <<engine_calls, cache, bus, settings, _REGISTRY, calls, quote, fundamentals, params, prev>>

\* A caller invokes calculate_fcf_yield(quote, fundamentals).
CallFcfYield ==
    \E pr \in PriceValues, sh \in SharesValues, fcf \in FcfValues :
        /\ op = "none"
        /\ op' = "fcf_yield"
        /\ quote' = Quote(pr, sh)
        /\ fundamentals' = Fundamentals(None, None, None, fcf)
        /\ result' = ValueResult(calculate_fcf_yield(quote', fundamentals'))
        /\ UNCHANGED <<engine_calls, cache, bus, settings, _REGISTRY, calls, params, args, prev>>

\* The process is started with scoring weights taken from its environment
\* (config.py: settings = Settings()).
Configure ==
    \E pe \in WeightValues, pb \in WeightValues, fy \in WeightValues, roe \in WeightValues :
        /\ op = "none"
        /\ settings' = [pe_weight |-> pe, pb_weight |-> pb,
                        fcf_yield_weight |-> fy, roe_weight |-> roe]
        /\ UNCHANGED <<engine_calls, cache, bus, _REGISTRY, calls, op, quote, fundamentals, params, args, result, prev>>

\* A caller invokes calculate_value_score(quote, fundamentals).
CallValueScore ==
    \E pe \in PeValues, pb \in PbValues, roe \in RoeValues,
       q \in ScoreQuotes, fcf \in ScoreFcfValues :
        /\ op = "none"
        /\ op' = "score"
        /\ quote' = q
        /\ fundamentals' = Fundamentals(pe, pb, roe, fcf)
        /\ result' = ValueResult(calculate_value_score(quote', fundamentals', settings))
        /\ UNCHANGED <<engine_calls, cache, bus, settings, _REGISTRY, calls, params, args, prev>>

\* The caller scores the same quote again with fundamentals that are at least
\* as good in every metric: P/E and P/B no higher, ROE and free cash flow no
\* lower, each known exactly when it was known before
\* (tests/test_scoring.py, poor metrics against good metrics).
CallValueScoreBetter ==
    \E pe \in PeValues, pb \in PbValues, roe \in RoeValues, fcf \in ScoreFcfValues :
        /\ op = "score"
        /\ pe.known = fundamentals.trailing_pe.known
        /\ pb.known = fundamentals.price_to_book.known
        /\ roe.known = fundamentals.roe.known
        /\ fcf.known = fundamentals.free_cash_flow.known
        /\ RLe(pe.v, fundamentals.trailing_pe.v)
        /\ RLe(pb.v, fundamentals.price_to_book.v)
        /\ RLe(fundamentals.roe.v, roe.v)
        /\ RLe(fundamentals.free_cash_flow.v, fcf.v)
        /\ op' = "score2"
        /\ fundamentals' = Fundamentals(pe, pb, roe, fcf)
        /\ prev' = [quote |-> quote, fundamentals |-> fundamentals, params |-> params,
                    result |-> result]
        /\ result' = ValueResult(calculate_value_score(quote, fundamentals', settings))
        /\ UNCHANGED <<engine_calls, cache, bus, settings, _REGISTRY, calls, quote, params, args>>

\* A caller invokes get_value_score_interpretation(score).
CallInterpretation ==
    \E score \in InterpretationScores :
        /\ op = "none"
        /\ op' = "interpretation"
        /\ args' = [score |-> score]
        /\ result' = LabelResult(get_value_score_interpretation(score))
        /\ UNCHANGED <<engine_calls, cache, bus, settings, _REGISTRY, calls, quote, fundamentals, params, prev>>

\* A caller invokes the five pass-through functions of ratios.py on one
\* quote and fundamentals (tests/test_ratios.py lines 78-175).
CallRatios ==
    \E q \in {NoQuote, Quote(Some(Int2Rat(4)), Some(Int2Rat(5)))},
       pe \in RatioValues, pb \in RatioValues, dte \in RatioValues,
       roe \in RatioValues, roa \in RatioValues :
        /\ op = "none"
        /\ op' = "ratios"
        /\ quote' = q
        /\ fundamentals' = [Fundamentals(pe, pb, roe, None)
                                EXCEPT !.roa = roa, !.debt_to_equity = dte]
        /\ result' = RatiosResult(calculate_price_to_earnings(quote', fundamentals'),
                                  calculate_price_to_book(quote', fundamentals'),
                                  calculate_debt_to_equity(quote', fundamentals'),
                                  calculate_return_on_equity(quote', fundamentals'),
                                  calculate_return_on_assets(quote', fundamentals'))
        /\ UNCHANGED <<engine_calls, cache, bus, settings, _REGISTRY, calls, params, args, prev>>

\* A caller invokes analyze_stock(data_source, ticker, params); the data
\* source answers get_quote and get_fundamentals.
AnalyzeStock ==
    \E q \in ScoreQuotes, fcf \in ScoreFcfValues, pe \in EnginePeValues,
       pb \in EnginePbValues, roe \in EngineRoeValues, dte \in EngineDebtValues,
       p \in EngineParams :
        /\ op = "none"
        /\ op' = "analyze"
        /\ quote' = q
        /\ fundamentals' = [Fundamentals(pe, pb, roe, fcf) EXCEPT !.debt_to_equity = dte]
        /\ params' = p
        /\ result' = analyze_stock(quote', fundamentals', params', settings)
        /\ UNCHANGED <<engine_calls, cache, bus, settings, _REGISTRY, calls, args, prev>>

\* A plugin module or a caller invokes register_source(source).
RegisterSource ==
    \E source \in Sources :
        /\ op = "none"
        /\ Len(calls) < MaxRegistrations
        /\ op' = "register_source"
        /\ args' = [source |-> source]
        /\ _REGISTRY' = register_source(_REGISTRY, source)
        /\ calls' = Append(calls, source)
        /\ result' = [raised |-> FALSE, value |-> None]
        /\ UNCHANGED <<engine_calls, cache, bus, settings, quote, fundamentals, params, prev>>

\* A caller invokes get_source(name).
GetSource ==
    \E name \in SourceNames :
        /\ op = "none"
        /\ op' = "get_source"
        /\ args' = [name |-> name]
        /\ result' = get_source(_REGISTRY, name)
        /\ UNCHANGED <<engine_calls, cache, bus, settings, _REGISTRY, calls, quote, fundamentals, params, prev>>

\* A caller invokes list_sources().
ListSources ==
    /\ op = "none"
    /\ op' = "list_sources"
    /\ result' = list_sources(_REGISTRY)
    /\ UNCHANGED <<engine_calls, cache, bus, settings, _REGISTRY, calls, quote, fundamentals, params, args, prev>>

\* A caller invokes get_quote(ticker) on a provider; the upstream service
\* answers in one of the ways of UpstreamQuotes.
CallGetQuote ==
    \E provider \in Providers, ticker \in Tickers, upstream \in UpstreamQuotes :
        /\ op = "none"
        /\ op' = "get_quote"
        /\ args' = [provider |-> provider, ticker |-> ticker, upstream |-> upstream]
        /\ result' = get_quote(provider, ticker, upstream)
        /\ UNCHANGED <<engine_calls, cache, bus, settings, _REGISTRY, calls, quote, fundamentals, params, prev>>

\* A caller invokes get_fundamentals(ticker) on a provider.
CallGetFundamentals ==
    \E provider \in Providers, ticker \in Tickers, upstream \in UpstreamFundamentals :
        /\ op = "none"
        /\ op' = "get_fundamentals"
        /\ args' = [provider |-> provider, ticker |-> ticker, upstream |-> upstream]
        /\ result' = get_fundamentals(provider, ticker, upstream)
        /\ UNCHANGED <<engine_calls, cache, bus, settings, _REGISTRY, calls, quote, fundamentals, params, prev>>

\* A call whose frame is that of the latest call: locals kept at module level.
Frame_Latest(t) == tasks[Len(tasks)]

\* engine.py lines 71-75: quote, fundamentals and params are locals of the call.
Frame(t) == tasks[t]

\* A caller enters analyze_stock(data_source, ticker, params).
StartAnalyze ==
    \E c \in Callers :
        /\ Len(tasks) < MaxTasks
        /\ tasks' = Append(tasks, [ticker |-> c.ticker, params |-> c.params,
                                   pc |-> "get_quote", quote |-> NoQuote,
                                   fundamentals |-> NoFundamentals,
                                   result |-> NoResult])
        /\ UNCHANGED <<source_log, cache, bus, settings, _REGISTRY, calls, op, quote,
                       fundamentals, params, args, result, prev>>

\* engine.py line 71: quote = data_source.get_quote(ticker).
GetQuote ==
    \E t \in 1..Len(tasks) :
      \E answer \in {SourceAnswers(tasks[t].ticker).get_quote, SourceError} :
        /\ tasks[t].pc = "get_quote"
        /\ source_log' = Append(source_log, [task |-> t, method |-> "get_quote",
                                             ticker |-> tasks[t].ticker,
                                             outcome |-> answer])
        /\ tasks' = [tasks EXCEPT ![t] =
                        IF answer = SourceError
                        THEN [@ EXCEPT !.pc = AfterRaise(@), !.result = answer]
                        ELSE [@ EXCEPT !.pc = "get_fundamentals", !.quote = answer]]
        /\ UNCHANGED <<cache, bus, settings, _REGISTRY, calls, op, quote,
                       fundamentals, params, args, result, prev>>

\* engine.py line 72: fundamentals = data_source.get_fundamentals(ticker).
GetFundamentals ==
    \E t \in 1..Len(tasks) :
      \E answer \in {SourceAnswers(tasks[t].ticker).get_fundamentals, SourceError} :
        /\ tasks[t].pc = "get_fundamentals"
        /\ source_log' = Append(source_log, [task |-> t, method |-> "get_fundamentals",
                                             ticker |-> tasks[t].ticker,
                                             outcome |-> answer])
        /\ tasks' = [tasks EXCEPT ![t] =
                        IF answer = SourceError
                        THEN [@ EXCEPT !.pc = AfterRaise(@), !.result = answer]
                        ELSE [@ EXCEPT !.pc = "compute", !.fundamentals = answer]]
        /\ UNCHANGED <<cache, bus, settings, _REGISTRY, calls, op, quote,
                       fundamentals, params, args, result, prev>>

\* engine.py line 75: return calculate_comprehensive_valuation(quote,
\* fundamentals, params).
Compute ==
    \E t \in 1..Len(tasks) :
        /\ tasks[t].pc = "compute"
        /\ tasks' = [tasks EXCEPT ![t] =
                        [@ EXCEPT !.pc = "done",
                                  !.result = calculate_comprehensive_valuation(
                                                 Frame(t).quote, Frame(t).fundamentals,
                                                 Frame(t).params, settings)]]
        /\ UNCHANGED <<source_log, cache, bus, settings, _REGISTRY, calls, op, quote,
                       fundamentals, params, args, result, prev>>

\* A plugin module is imported and registers its source (yf_source.py line
\* 80 and the like); a module is imported once.
ImportPlugin ==
    \E source \in Sources :
        /\ op = "none"
        /\ ~DictHas(_REGISTRY, source.name)
        /\ op' = "register_source"
        /\ args' = [source |-> source]
        /\ _REGISTRY' = register_source(_REGISTRY, source)
        /\ calls' = Append(calls, source)
        /\ result' = [raised |-> FALSE, value |-> None]
        /\ UNCHANGED <<engine_calls, cache, bus, settings, quote, fundamentals, params, prev>>

\* The command line is run with its arguments; analyze_stock returns or
\* raises for each ticker.
CallMain ==
    \E numbers \in CliNumbers, tickers \in TickerLists, given \in BOOLEAN,
       source \in SourceNames :
      \E outcomes \in [1..Len(tickers) -> {"ok", "raise"}] :
        /\ op = "none"
        /\ given \/ source = DefaultSource
        /\ op' = "main"
        /\ args' = [argv |-> [source_given |-> given, source |-> source,
                              ticker |-> tickers, growth |-> numbers.growth,
                              discount |-> numbers.discount, years |-> numbers.years,
                              terminal |-> numbers.terminal],
                    outcomes |-> outcomes]
        /\ result' = main(args'.argv, _REGISTRY, outcomes)
        /\ UNCHANGED <<engine_calls, cache, bus, settings, _REGISTRY, calls, quote, fundamentals, params, prev>>

\* A caller invokes cache.get(source, ticker, endpoint).
CacheGet ==
    \E req \in Requests, ok \in BOOLEAN :
        LET out == MongoDBCache_get(collection, now, req, ok)
        IN  /\ op = "none"
            /\ op' = "cache_get"
            /\ args' = [request |-> req, ok |-> ok, before |-> collection]
            /\ collection' = out.collection
            /\ result' = out.value
            /\ UNCHANGED <<now, last_set, engine_calls, bus, settings, _REGISTRY, calls,
                           quote, fundamentals, params, prev>>

\* A caller invokes cache.set(source, ticker, endpoint, data, ttl_hours).
CacheSet ==
    \E req \in Requests, data \in Payloads, ttl_hours \in TtlHours, ok \in BOOLEAN :
        LET out == MongoDBCache_set(collection, now, req, data, ttl_hours, ok)
        IN  /\ op = "none"
            /\ op' = "cache_set"
            /\ args' = [request |-> req, ok |-> ok, before |-> collection]
            /\ collection' = out.collection
            /\ last_set' = IF out.value
                           THEN DictSet(last_set,
                                        _generate_cache_key(req.source, req.ticker,
                                                            req.endpoint), data)
                           ELSE last_set
            /\ result' = out
            /\ UNCHANGED <<now, engine_calls, bus, settings, _REGISTRY, calls,
                           quote, fundamentals, params, prev>>

\* A caller invokes cache.delete(source, ticker, endpoint).
CacheDelete ==
    \E req \in Requests, ok \in BOOLEAN :
        LET out == MongoDBCache_delete(collection, req, ok)
        IN  /\ op = "none"
            /\ op' = "cache_delete"
            /\ args' = [request |-> req, ok |-> ok, before |-> collection]
            /\ collection' = out.collection
            /\ result' = out
            /\ UNCHANGED <<now, last_set, engine_calls, bus, settings, _REGISTRY, calls,
                           quote, fundamentals, params, prev>>

\* Twelve hours pass (datetime.utcnow() of the next call is later).
Tick ==
    /\ op = "none"
    /\ now < 12 * MaxTicks
    /\ now' = now + 12
    /\ UNCHANGED <<collection, last_set, engine_calls, bus, settings, _REGISTRY, calls,
                   op, quote, fundamentals, params, args, result, prev>>

\* The dashboard asks for the data of a ticker through the cache.
CallCachedFetch ==
    \E ticker \in {<<116>>, <<117, 124, 113>>}, force_refresh \in BOOLEAN,
       fetched \in {0} \cup Payloads, get_ok \in BOOLEAN, set_ok \in BOOLEAN :
        LET out == get_cached_alpha_vantage_data(collection, now, ticker, force_refresh,
                                                 fetched, get_ok, set_ok)
        IN  /\ op = "none"
            /\ op' = "cached_fetch"
            /\ args' = [request |-> [source |-> <<97>>, ticker |-> ticker,
                                     endpoint |-> <<113>>],
                        force_refresh |-> force_refresh, fetched |-> fetched,
                        get_ok |-> get_ok, set_ok |-> set_ok, before |-> collection]
            /\ collection' = out.collection
            /\ result' = out
            /\ UNCHANGED <<now, last_set, engine_calls, bus, settings, _REGISTRY, calls,
                           quote, fundamentals, params, prev>>

\* A tab or a caller invokes event_bus.subscribe(event_type, callback).
Subscribe ==
    \E event_type \in EventTypes, callback \in Callbacks :
        /\ op = "none"
        /\ Len(CallbacksOf(subscribers, event_type)) < MaxSubscriptions
        /\ op' = "subscribe"
        /\ args' = [event_type |-> event_type, callback |-> callback]
        /\ subscribers' = subscribe(subscribers, event_type, callback)
        /\ result' = [raised |-> FALSE, trace |-> <<>>]
        /\ UNCHANGED <<event_history, engine_calls, cache, settings, _REGISTRY, calls,
                       quote, fundamentals, params, prev>>

\* A caller invokes event_bus.publish(event) with a new Event.
Publish ==
    \E event_type \in EventTypes :
        LET event == [event_type |-> event_type, event_id |-> Len(event_history) + 1]
            out == publish(subscribers, event_history, event)
        IN  /\ op = "none"
            /\ Len(event_history) < MaxEvents
            /\ op' = "publish"
            /\ args' = [event |-> event, before |-> event_history]
            /\ event_history' = out.event_history
            /\ result' = [raised |-> out.raised, trace |-> out.trace]
            /\ UNCHANGED <<subscribers, engine_calls, cache, settings, _REGISTRY, calls,
                           quote, fundamentals, params, prev>>

\* The caller has read the result; the next call starts afresh.
Return ==
    /\ op # "none"
    /\ op' = "none"
    /\ quote' = NoQuote
    /\ fundamentals' = NoFundamentals
    /\ params' = DefaultParams
    /\ args' = NoArgs
    /\ result' = NoResult
    /\ prev' = NoPrev
    /\ UNCHANGED <<engine_calls, cache, bus, settings, _REGISTRY, calls>>

Next ==
    \/ CallDcf
    \/ CallDcfHigherRate
    \/ CallMarginOfSafety
    \/ CallFcfYield
    \/ Return

Spec == Init /\ [][Next]_vars

\* The DCF calculator on horizons that are not positive.
NextHorizon ==
    \/ CallDcfNonPositiveYears
    \/ Return

SpecHorizon == Init /\ [][NextHorizon]_vars

\* The four providers against every answer of their upstream services.
NextSources ==
    \/ CallGetQuote
    \/ CallGetFundamentals
    \/ Return

SpecSources == Init /\ [][NextSources]_vars

\* analyze_stock calls in flight at once, each a sequence of its steps.
NextCalls ==
    \/ StartAnalyze
    \/ GetQuote
    \/ GetFundamentals
    \/ Compute

SpecCalls == Init /\ [][NextCalls]_vars

\* The command line over the registry of data sources.
NextCli ==
    \/ ImportPlugin
    \/ CallMain
    \/ Return

SpecCli == Init /\ [][NextCli]_vars

\* The Mongo cache under sets, gets, deletes and the passing of time.
NextCache ==
    \/ CacheGet
    \/ CacheSet
    \/ CacheDelete
    \/ Tick
    \/ Return

SpecCache == Init /\ [][NextCache]_vars

\* The cached fetch helper of the dashboard and the passing of time.
NextFetch ==
    \/ CallCachedFetch
    \/ Tick
    \/ Return

SpecFetch == Init /\ [][NextFetch]_vars

\* The event bus of the dashboard.
NextBus ==
    \/ Subscribe
    \/ Publish
    \/ Return

SpecBus == Init /\ [][NextBus]_vars

\* The value scorer under every configuration of the weights.
NextScore ==
    \/ Configure
    \/ CallValueScore
    \/ Return

SpecScore == Init /\ [][NextScore]_vars

\* The value scorer and the interpretation of its scores under the default
\* weights, with repeated calls on improved fundamentals.
NextOrder ==
    \/ CallValueScore
    \/ CallValueScoreBetter
    \/ CallInterpretation
    \/ Return

SpecOrder == Init /\ [][NextOrder]_vars

\* The pass-through ratio functions.
NextRatios ==
    \/ CallRatios
    \/ Return

SpecRatios == Init /\ [][NextRatios]_vars

\* The valuation engine under the default weights.
NextEngine ==
    \/ AnalyzeStock
    \/ Return

SpecEngine == Init /\ [][NextEngine]_vars

\* The registry of data sources.
NextRegistry ==
    \/ RegisterSource
    \/ GetSource
    \/ ListSources
    \/ Return

SpecRegistry == Init /\ [][NextRegistry]_vars

\* ------------------------------------------------------------- claims

IsDcfCall == op \in {"dcf", "dcf2"}

Fcf == fundamentals.free_cash_flow

Shares == quote.shares_outstanding

\* The spec's reading of step 2: terminal_growth if present, else
\* long_term_growth.
StatedTerminalGrowth(p) ==
    IF p.terminal_growth.known THEN p.terminal_growth.v ELSE p.long_term_growth

\* sum over t in 1..years of fcf * (1+g)^t / (1+r)^t.
RECURSIVE StatedPvSum(_, _, _, _)
StatedPvSum(fcf, g, r, t) ==
    IF t = 0 THEN Zero
    ELSE RAdd(StatedPvSum(fcf, g, r, t - 1),
              RDiv(RMul(fcf, RPow(RAdd(One, g), t)), RPow(RAdd(One, r), t)))

\* fcf * (1+g)^years * (1+tg) / (r - tg) / (1+r)^years.
StatedPvTerminal(fcf, g, tg, r, years) ==
    RDiv(RDiv(RMul(RMul(fcf, RPow(RAdd(One, g), years)), RAdd(One, tg)), RSub(r, tg)),
         RPow(RAdd(One, r), years))

StatedTotal(fcf, p, tg) ==
    RAdd(StatedPvSum(fcf, p.long_term_growth, p.discount_rate, p.years),
         StatedPvTerminal(fcf, p.long_term_growth, tg, p.discount_rate, p.years))

\* C1: whenever free_cash_flow is known (0 and negative values included) and
\* the effective terminal growth (as the call resolves it) is below the
\* discount rate, intrinsic_value_total is known and equals the sum of the
\* discounted projected cash flows plus the discounted terminal value.
C1_TotalForEveryKnownFcf ==
    (IsDcfCall /\ Fcf.known
        /\ RLt(ResolveTerminalGrowth(params), params.discount_rate))
    => /\ ~result.raised
       /\ result.total
            = Some(StatedTotal(Fcf.v, params, ResolveTerminalGrowth(params)))

\* C2: the effective terminal growth is params.terminal_growth whenever it is
\* present (an explicit 0.0 included) and long_term_growth only when it is
\* absent; the validity check and the terminal-value formula use that value.
C2_PresentTerminalGrowthIsUsed ==
    (IsDcfCall /\ ~FcfMissing(fundamentals))
    => LET tg == StatedTerminalGrowth(params)
       IN  /\ result.terminal_growth = Some(tg)
           /\ RLe(params.discount_rate, tg) => ~result.total.known
           /\ RLt(tg, params.discount_rate)
                => result.total = Some(StatedTotal(Fcf.v, params, tg))

\* C3 (P2): with free_cash_flow unknown the call returns (unknown, unknown),
\* whatever the quote and the parameters are.
C3_UnknownFcfGivesUnknown ==
    (IsDcfCall /\ ~Fcf.known)
    => ~result.raised /\ ~result.per_share.known /\ ~result.total.known

C3_Witness ==
    /\ op = "dcf" /\ ~Fcf.known /\ Shares.known /\ RLt(Zero, Shares.v)
    /\ params.terminal_growth.known
    /\ RLt(params.terminal_growth.v, params.discount_rate)
    /\ ~result.total.known

\* C4 (P3): with the effective terminal growth >= discount_rate the call
\* returns (unknown, unknown), and a known intrinsic value is only ever
\* produced with a positive Gordon-growth denominator.
C4_InvalidTerminalGrowthGivesUnknown ==
    IsDcfCall
    => /\ RLe(params.discount_rate, StatedTerminalGrowth(params))
            => ~result.raised /\ ~result.per_share.known /\ ~result.total.known
       /\ RLe(params.discount_rate, ResolveTerminalGrowth(params))
            => ~result.raised /\ ~result.per_share.known /\ ~result.total.known
       /\ result.total.known
            => /\ result.terminal_growth.known
               /\ RLt(Zero, RSub(params.discount_rate, result.terminal_growth.v))

C4_Witness ==
    /\ op = "dcf" /\ ~FcfMissing(fundamentals) /\ Shares.known /\ RLt(Zero, Shares.v)
    /\ params.terminal_growth.known
    /\ params.terminal_growth.v = params.discount_rate
    /\ ~result.raised /\ ~result.total.known /\ ~result.per_share.known

\* C5 (P4): with intrinsic_value_total known, intrinsic_value_per_share is
\* known iff shares_outstanding is known and > 0, and then per_share times
\* shares_outstanding is the total; per_share is never known while the total
\* is unknown.
C5_PerShareConsistency ==
    IsDcfCall
    => /\ result.total.known
            => /\ result.per_share.known <=> (Shares.known /\ RLt(Zero, Shares.v))
               /\ result.per_share.known
                    => RMul(result.per_share.v, Shares.v) = result.total.v
       /\ ~result.total.known => ~result.per_share.known

C5_Witness ==
    /\ op = "dcf" /\ result.total.known /\ result.per_share.known
    /\ Shares.v = Int2Rat(5) /\ result.total.v # Zero
    /\ RMul(result.per_share.v, Int2Rat(5)) = result.total.v

\* C6 (P1), as stated: for every known free cash flow, raising the discount
\* rate (both rates valid, everything else fixed) strictly lowers
\* intrinsic_value_total.
C6_HigherRateLowersTotal ==
    (op = "dcf2" /\ Fcf.known /\ prev.result.total.known /\ result.total.known)
    => RLt(result.total.v, prev.result.total.v)

\* C6 amended: the same for free_cash_flow > 0 and long_term_growth > -1.
C6_HigherRateLowersTotalOfPositiveFcf ==
    (op = "dcf2" /\ Fcf.known /\ RLt(Zero, Fcf.v)
        /\ RLt(Int2Rat(-1), params.long_term_growth)
        /\ RLt(prev.params.discount_rate, params.discount_rate)
        /\ RLt(ResolveTerminalGrowth(params), prev.params.discount_rate))
    => /\ prev.result.total.known /\ result.total.known
       /\ RLt(result.total.v, prev.result.total.v)

C6_Witness ==
    /\ op = "dcf2" /\ Fcf.known /\ RLt(Zero, Fcf.v)
    /\ RLt(Int2Rat(-1), params.long_term_growth)
    /\ params.terminal_growth.known /\ RLt(params.terminal_growth.v, Int2Rat(-1))
    /\ params.years = MaxYears
    /\ prev.result.total.known /\ result.total.known
    /\ RLt(result.total.v, prev.result.total.v)

\* C7: calculate_margin_of_safety returns unknown iff an input is unknown or
\* intrinsic_value_per_share <= 0; for every other pair (current_price 0
\* included) it returns (ivps - current_price) / ivps.
C7_MarginOfSafety ==
    op = "mos"
    => LET cp == args.current_price
           iv == args.intrinsic_value_per_share
           undefined == ~cp.known \/ ~iv.known \/ RLe(iv.v, Zero)
       IN  /\ ~result.raised
           /\ ~result.value.known <=> undefined
           /\ ~undefined => result.value = Some(RDiv(RSub(iv.v, cp.v), iv.v))

\* C8: calculate_fcf_yield returns a known value iff price is known and > 0,
\* shares_outstanding is known and > 0 and free_cash_flow is known (0
\* included), and then free_cash_flow / (price * shares_outstanding).
C8_FcfYield ==
    op = "fcf_yield"
    => LET defined == /\ quote.price.known /\ RLt(Zero, quote.price.v)
                      /\ Shares.known /\ RLt(Zero, Shares.v)
                      /\ Fcf.known
       IN  /\ ~result.raised
           /\ result.value.known <=> defined
           /\ defined
                => result.value = Some(RDiv(Fcf.v, RMul(quote.price.v, Shares.v)))

\* The FCF yield as section 4.1 states it: known iff price and
\* shares_outstanding are known and > 0 and free_cash_flow is known.
StatedFcfYield(q, f) ==
    IF /\ q.price.known /\ RLt(Zero, q.price.v)
       /\ q.shares_outstanding.known /\ RLt(Zero, q.shares_outstanding.v)
       /\ f.free_cash_flow.known
    THEN Some(RDiv(f.free_cash_flow.v, RMul(q.price.v, q.shares_outstanding.v)))
    ELSE None

StatedClamp(x) ==
    IF RLt(x, Zero) THEN Zero ELSE IF RLt(Hundred, x) THEN Hundred ELSE x

\* The (score, weight) pairs the scorer is stated to use, in the order P/E,
\* P/B, FCF yield, ROE.
StatedSignals ==
    LET f == fundamentals
        y == StatedFcfYield(quote, fundamentals)
    IN  (IF f.trailing_pe.known /\ RLt(Zero, f.trailing_pe.v)
         THEN <<Signal(StatedClamp(RSub(Hundred, RMul(Int2Rat(2), f.trailing_pe.v))),
                       settings.pe_weight)>>
         ELSE <<>>)
        \o (IF f.price_to_book.known /\ RLt(Zero, f.price_to_book.v)
            THEN <<Signal(StatedClamp(RSub(Hundred, RMul(Int2Rat(20), f.price_to_book.v))),
                          settings.pb_weight)>>
            ELSE <<>>)
        \o (IF y.known
            THEN <<Signal(StatedClamp(RMul(Int2Rat(1000), y.v)),
                          settings.fcf_yield_weight)>>
            ELSE <<>>)
        \o (IF f.roe.known
            THEN <<Signal(StatedClamp(RMul(Hundred, f.roe.v)), settings.roe_weight)>>
            ELSE <<>>)

\* A signal is available as section 4.3 states it: trailing_pe and
\* price_to_book known and > 0, the FCF yield of section 4.1 known, roe known.
PeSignalAvailable ==
    fundamentals.trailing_pe.known /\ RLt(Zero, fundamentals.trailing_pe.v)

PbSignalAvailable ==
    fundamentals.price_to_book.known /\ RLt(Zero, fundamentals.price_to_book.v)

FcfSignalAvailable == StatedFcfYield(quote, fundamentals).known

RoeSignalAvailable == fundamentals.roe.known

AnySignalAvailable ==
    PeSignalAvailable \/ PbSignalAvailable \/ FcfSignalAvailable \/ RoeSignalAvailable

WeightsNonNegative ==
    /\ RLe(Zero, settings.pe_weight) /\ RLe(Zero, settings.pb_weight)
    /\ RLe(Zero, settings.fcf_yield_weight) /\ RLe(Zero, settings.roe_weight)

ScoreInBounds == RLe(Zero, result.value.v) /\ RLe(result.value.v, Hundred)

C10_UnknownIffNoSignal ==
    op = "score" => (~result.value.known <=> ~AnySignalAvailable)

\* C11 (signal availability): in every call of calculate_value_score the
\* signals used are exactly the stated ones: P/E iff trailing_pe is known and
\* > 0, P/B iff price_to_book is known and > 0, FCF yield iff the FCF yield of
\* section 4.1 is known, ROE iff roe is known, each with its stated clamped
\* score.
C11_SignalsAsStated ==
    op = "score" => Signals(quote, fundamentals, settings) = StatedSignals

\* sum of score * weight over the signals.
RECURSIVE SumScoreTimesWeight(_)
SumScoreTimesWeight(sigs) ==
    IF sigs = <<>> THEN Zero
    ELSE RAdd(RMul(Head(sigs).score, Head(sigs).weight),
              SumScoreTimesWeight(Tail(sigs)))

\* The stated aggregate: the weighted sum of the scores with the weights
\* divided by their sum, rounded to 2 decimals.
StatedScore(sigs) ==
    Some(Round2(RDiv(SumScoreTimesWeight(sigs), SumWeights(sigs))))

\* Positive constants the weights are multiplied by.
ScaleFactors == {Rat(1, 2), Int2Rat(3)}

Scaled(s, k) ==
    [pe_weight |-> RMul(k, s.pe_weight), pb_weight |-> RMul(k, s.pb_weight),
     fcf_yield_weight |-> RMul(k, s.fcf_yield_weight),
     roe_weight |-> RMul(k, s.roe_weight)]

\* C12 (score aggregation): whenever a signal is available the score is the
\* weighted sum of the available signals' scores with the weights normalised
\* over them, rounded to 2 decimals; with exactly one signal available it is
\* that signal's clamped score; multiplying all weights by a positive
\* constant does not change it.
C12_Aggregation ==
    op = "score"
    => /\ StatedSignals # <<>> => result.value = StatedScore(StatedSignals)
       /\ Len(StatedSignals) = 1
            => result.value = Some(Round2(StatedSignals[1].score))
       /\ \A k \in ScaleFactors :
            calculate_value_score(quote, fundamentals, Scaled(settings, k))
                = result.value

\* The calls prev and now have the same set of available signals.
SameAvailableSignals ==
    LET f == fundamentals
        g == prev.fundamentals
        avail(x) == x.known /\ RLt(Zero, x.v)
    IN  /\ avail(f.trailing_pe) = avail(g.trailing_pe)
        /\ avail(f.price_to_book) = avail(g.price_to_book)
        /\ f.roe.known = g.roe.known
        /\ StatedFcfYield(quote, f).known = StatedFcfYield(prev.quote, g).known

\* The call now has a lower-or-equal P/E and P/B and a higher-or-equal ROE and
\* FCF yield than the call prev.
NoWorseMetrics ==
    LET f == fundamentals
        g == prev.fundamentals
    IN  /\ RLe(f.trailing_pe.v, g.trailing_pe.v)
        /\ RLe(f.price_to_book.v, g.price_to_book.v)
        /\ RLe(g.roe.v, f.roe.v)
        /\ RLe(StatedFcfYield(prev.quote, g).v, StatedFcfYield(quote, f).v)

GoodCase(f) ==
    /\ f.trailing_pe = Some(Int2Rat(10)) /\ f.price_to_book = Some(Int2Rat(1))
    /\ f.roe = Some(Rat(1, 5))

PoorCase(f) ==
    /\ f.trailing_pe = Some(Int2Rat(50)) /\ f.price_to_book = Some(Int2Rat(10))
    /\ f.roe = Some(Rat(1, 20))

\* C13 (P8, score ordering): with the same set of available signals and the
\* configured weights, fundamentals with a lower-or-equal P/E and P/B and a
\* higher-or-equal ROE and FCF yield never get a lower score; P/E 10, P/B 1,
\* ROE 0.20 with a high FCF yield score strictly higher than P/E 50, P/B 10,
\* ROE 0.05 with a low one.
C13_ScoreOrdering ==
    (op = "score2" /\ SameAvailableSignals /\ NoWorseMetrics)
    => /\ (result.value.known /\ prev.result.value.known)
            => RLe(prev.result.value.v, result.value.v)
       /\ (/\ GoodCase(fundamentals) /\ PoorCase(prev.fundamentals)
           /\ StatedFcfYield(quote, fundamentals).known
           /\ RLt(StatedFcfYield(prev.quote, prev.fundamentals).v,
                  StatedFcfYield(quote, fundamentals).v))
            => /\ result.value.known /\ prev.result.value.known
               /\ RLt(prev.result.value.v, result.value.v)

Labels ==
    <<"Very Poor Value", "Poor Value", "Fair Value", "Good Value", "Excellent Value">>

\* The position of a label in Labels, 0 for anything else.
LabelRank(label) ==
    IF \E i \in 1..Len(Labels) : Labels[i] = label
    THEN CHOOSE i \in 1..Len(Labels) : Labels[i] = label
    ELSE 0

\* The stated bucket of a score, by its inclusive lower bound.
StatedLabel(score) ==
    IF RLe(Int2Rat(80), score) THEN "Excellent Value"
    ELSE IF RLe(Int2Rat(60), score) /\ RLt(score, Int2Rat(80)) THEN "Good Value"
    ELSE IF RLe(Int2Rat(40), score) /\ RLt(score, Int2Rat(60)) THEN "Fair Value"
    ELSE IF RLe(Int2Rat(20), score) /\ RLt(score, Int2Rat(40)) THEN "Poor Value"
    ELSE IF RLt(score, Int2Rat(20)) THEN "Very Poor Value"
    ELSE "no label"

\* C14 (P9, interpretation boundaries): get_value_score_interpretation
\* returns for every score exactly the label of its bucket, the lower bounds
\* 80, 60, 40 and 20 inclusive, and a score at least as high as another never
\* gets a label of lower rank.
C14_InterpretationBuckets ==
    op = "interpretation"
    => /\ ~result.raised
       /\ LabelRank(result.label) \in 1..Len(Labels)
       /\ result.label = StatedLabel(args.score)
       /\ \A s \in InterpretationScores :
            RLe(s, args.score)
                => LabelRank(get_value_score_interpretation(s))
                       <= LabelRank(result.label)

C14_Witness ==
    /\ op = "interpretation"
    /\ args.score = Int2Rat(60)
    /\ result.label = "Good Value"
    /\ get_value_score_interpretation(Rat(5999, 100)) = "Fair Value"

\* The FCF-yield signal is among the signals of the value score: without the
\* free cash flow the scorer collects one signal fewer.
FcfYieldSignalTookPart ==
    Len(Signals(quote, fundamentals, settings))
        > Len(Signals(quote, [fundamentals EXCEPT !.free_cash_flow = None], settings))

\* C15: for the quote and fundamentals of every valuation,
\* _calculate_fcf_yield_for_scoring and calculate_fcf_yield return the same
\* thing (unknown together, else the same value), and the fcf_yield of the
\* ValuationResult is known iff the FCF-yield signal took part in its
\* value_score.
C15_SameFcfYield ==
    op = "analyze"
    => /\ ~result.raised
       /\ _calculate_fcf_yield_for_scoring(quote, fundamentals)
              = calculate_fcf_yield(quote, fundamentals)
       /\ result.fcf_yield = _calculate_fcf_yield_for_scoring(quote, fundamentals)
       /\ result.fcf_yield.known <=> FcfYieldSignalTookPart

C15_Witness ==
    /\ op = "analyze"
    /\ result.fcf_yield = Some(Rat(1, 20))
    /\ FcfYieldSignalTookPart
    /\ result.value_score = Some(Int2Rat(50))

\* C16: each of the five pass-through ratio functions returns the Fundamentals
\* field it is named after, whatever the quote is: the value itself when the
\* field is known (0 and negative values included), unknown when it is
\* unknown, and none of them raises.
C16_PassThrough ==
    op = "ratios"
    => /\ ~result.raised
       /\ result.price_to_earnings = fundamentals.trailing_pe
       /\ result.price_to_book = fundamentals.price_to_book
       /\ result.debt_to_equity = fundamentals.debt_to_equity
       /\ result.return_on_equity = fundamentals.roe
       /\ result.return_on_assets = fundamentals.roa

C16_Witness ==
    /\ op = "ratios"
    /\ fundamentals.trailing_pe = Some(Int2Rat(-1))
    /\ fundamentals.price_to_book = None
    /\ fundamentals.debt_to_equity = Some(Rat(3, 2))
    /\ fundamentals.roe = Some(Int2Rat(0))
    /\ fundamentals.roa = Some(Int2Rat(0))
    /\ result.price_to_earnings = Some(Int2Rat(-1))
    /\ ~result.price_to_book.known
    /\ result.return_on_equity = Some(Zero)
    /\ result.return_on_assets.known

\* C20 (engine assembly): the ValuationResult of analyze_stock carries the
\* two values of calculate_dcf_value(quote, fundamentals, params), the
\* calculate_margin_of_safety of the price and the per-share value, the
\* calculate_fcf_yield, the calculate_value_score and the four fundamentals
\* fields; whatever is unknown there is unknown in the result.
C20_EngineAssembly ==
    op = "analyze"
    => LET dcf == calculate_dcf_value(quote, fundamentals, params)
           unknownKept(x, field) == ~x.known => field = None
       IN  /\ ~result.raised
           /\ result.intrinsic_value_per_share = dcf.per_share
           /\ result.intrinsic_value_total = dcf.total
           /\ result.margin_of_safety
                  = calculate_margin_of_safety(quote.price, dcf.per_share)
           /\ result.fcf_yield = calculate_fcf_yield(quote, fundamentals)
           /\ result.value_score
                  = calculate_value_score(quote, fundamentals, settings)
           /\ result.pe_ratio = fundamentals.trailing_pe
           /\ result.pb_ratio = fundamentals.price_to_book
           /\ result.roe = fundamentals.roe
           /\ result.debt_to_equity = fundamentals.debt_to_equity
           /\ unknownKept(dcf.per_share, result.intrinsic_value_per_share)
           /\ unknownKept(dcf.total, result.intrinsic_value_total)
           /\ unknownKept(dcf.per_share, result.margin_of_safety)
           /\ unknownKept(quote.price, result.margin_of_safety)
           /\ unknownKept(fundamentals.debt_to_equity, result.debt_to_equity)
           /\ unknownKept(fundamentals.roe, result.roe)

C20_Witness ==
    /\ op = "analyze"
    /\ result.intrinsic_value_per_share.known
    /\ result.margin_of_safety.known
    /\ RLt(result.margin_of_safety.v, Zero)
    /\ result.value_score.known
    /\ result.pe_ratio = Some(Int2Rat(10))
    /\ result.roe = Some(Zero)
    /\ result.debt_to_equity = None
    /\ params.years = MaxYears

\* The positions of the register_source calls whose source was named name.
RegistrationsOf(name) == {i \in 1..Len(calls) : calls[i].name = name}

\* The source of the most recent of them.
LastRegistered(name) ==
    calls[CHOOSE i \in RegistrationsOf(name) : \A j \in RegistrationsOf(name) : j <= i]

\* C17 (registry, last registration wins): after any sequence of
\* register_source calls, get_source(n) returns the source of the most recent
\* register_source call whose source.name was n.
C17_LastRegistrationWins ==
    (op = "get_source" /\ RegistrationsOf(args.name) # {})
    => /\ ~result.raised
       /\ result.value = LastRegistered(args.name)

C17_Witness ==
    /\ op = "get_source"
    /\ Len(calls) = MaxRegistrations
    /\ calls[1].name = args.name
    /\ calls[2].name # args.name
    /\ calls[Len(calls)].name = args.name
    /\ calls[Len(calls)] # calls[1]
    /\ result.value = calls[Len(calls)]

\* C18 (registry listing): list_sources() returns a strictly ascending
\* sequence whose elements are exactly the names registered so far, however
\* often each was registered.
C18_ListSorted ==
    op = "list_sources"
    => LET names == result.value
       IN  /\ ~result.raised
           /\ \A i \in 1..Len(names) : \A j \in 1..Len(names) :
                i < j => StrLess(names[i], names[j])
           /\ {names[i] : i \in 1..Len(names)}
                  = {calls[i].name : i \in 1..Len(calls)}

C18_Witness ==
    /\ op = "list_sources"
    /\ Len(calls) = MaxRegistrations
    /\ StrLess(calls[2].name, calls[1].name)
    /\ calls[Len(calls)].name = calls[1].name
    /\ Len(result.value) = 2

\* C19 (registry lookup failure): every get_source(n) leaves the registry as
\* it was; for a name that is not registered it fails with the KeyError
\* 'Unknown data source: n' and returns no source, for a registered name it
\* does not fail.
C19_LookupFailure ==
    [][(op = "none" /\ op' = "get_source")
       => /\ _REGISTRY' = _REGISTRY
          /\ IF \E i \in 1..Len(_REGISTRY) : _REGISTRY[i].key = args'.name
             THEN ~result'.raised /\ result'.value \in Sources
             ELSE result' = [raised |-> TRUE, error |-> "KeyError",
                             message |-> <<"Unknown data source: ", args'.name>>]]_vars

C19_Witness ==
    /\ op = "get_source"
    /\ result.raised
    /\ result.message = <<"Unknown data source: ", <<97, 98>>>>
    /\ Len(_REGISTRY) = 2

ValuationResultFields ==
    {"raised", "intrinsic_value_per_share", "intrinsic_value_total",
     "margin_of_safety", "value_score", "fcf_yield", "pe_ratio", "pb_ratio", "roe",
     "debt_to_equity"}

C25_NoValueForNonPositiveYears ==
    (op = "dcf" /\ params.years <= 0)
    => ~result.total.known /\ ~result.per_share.known

\* C26 (registry frame): register_source(s) binds s.name to s and leaves the
\* outcome of get_source(m) as it was for every other name m, a source or
\* the lookup failure alike; get_source and list_sources leave the registry
\* as it was.
C26_RegistryFrame ==
    [][/\ (op = "none" /\ op' = "register_source")
          => /\ get_source(_REGISTRY', args'.source.name)
                  = [raised |-> FALSE, value |-> args'.source]
             /\ \A m \in SourceNames \ {args'.source.name} :
                  get_source(_REGISTRY', m) = get_source(_REGISTRY, m)
       /\ (op = "none" /\ op' \in {"get_source", "list_sources"})
          => _REGISTRY' = _REGISTRY]_vars

C26_Witness ==
    /\ op = "register_source"
    /\ Len(calls) = MaxRegistrations
    /\ Len(_REGISTRY) = 2
    /\ calls[1].name # calls[2].name
    /\ args.source.name = calls[1].name
    /\ args.source # calls[1]
    /\ get_source(_REGISTRY, calls[2].name).value = calls[2]

\* C22 (data-source contract): for every provider and every ticker, also when
\* the upstream request fails or returns no data, get_quote returns a Quote
\* and get_fundamentals a Fundamentals for that ticker, never a null record.
C22_TotalProviders ==
    /\ op = "get_quote"
       => result.kind = "Quote" /\ Upper(result.ticker) = Upper(args.ticker)
    /\ op = "get_fundamentals"
       => result.kind = "Fundamentals" /\ Upper(result.ticker) = Upper(args.ticker)

\* The data-source calls that call t made, in order.
LogOf(t) == SelectSeq(source_log, LAMBDA e : e.task = t)

\* C23 (data-source calls of one analysis): each analyze_stock call asks the
\* data source with the caller's ticker only, get_quote once and then
\* get_fundamentals once and nothing more; a call that returned made both
\* calls, and a call ended by an exception of the data source made no call
\* after the one that raised and hands that exception to its caller as it is.
C23_OneCallEach ==
    \A t \in 1..Len(tasks) :
        LET log == LogOf(t)
        IN  /\ \A i \in 1..Len(log) : log[i].ticker = tasks[t].ticker
            /\ Len(log) <= 2
            /\ Len(log) >= 1 => log[1].method = "get_quote"
            /\ Len(log) = 2 => /\ log[2].method = "get_fundamentals"
                               /\ log[1].outcome # SourceError
            /\ tasks[t].pc = "done"
               => IF tasks[t].result.raised
                  THEN /\ log[Len(log)].outcome = SourceError
                       /\ tasks[t].result = log[Len(log)].outcome
                  ELSE /\ Len(log) = 2
                       /\ log[2].outcome # SourceError

C23_Witness ==
    /\ Len(tasks) = 2
    /\ tasks[1].pc = "done" /\ ~tasks[1].result.raised
    /\ tasks[2].pc = "done" /\ tasks[2].result = SourceError
    /\ Len(LogOf(1)) = 2
    /\ Len(LogOf(2)) = 1
    /\ source_log[2].task = 2

\* C24 (independent analyses): analyze_stock calls whose steps interleave
\* each return what the call would return alone on the data the source gave
\* to that call, whatever the other calls read and computed meanwhile.
C24_Isolation ==
    \A t \in 1..Len(tasks) :
        tasks[t].pc = "done"
        => LET log == LogOf(t)
           IN  tasks[t].result =
                   IF log[Len(log)].outcome = SourceError THEN SourceError
                   ELSE analyze_stock(log[1].outcome, log[2].outcome,
                                      tasks[t].params, settings)

C24_Witness ==
    /\ Len(tasks) = 2
    /\ tasks[1].ticker # tasks[2].ticker
    /\ tasks[1].pc = "done" /\ tasks[2].pc = "done"
    /\ Len(source_log) = 4
    /\ source_log[1].task = 1 /\ source_log[2].task = 2
    /\ source_log[3].task = 1 /\ source_log[4].task = 2
    /\ source_log[1].outcome # source_log[2].outcome
    /\ ~tasks[1].result.raised /\ ~tasks[2].result.raised
    /\ tasks[1].result # tasks[2].result

\* The tickers of the run at the positions where analyze_stock had the
\* given outcome, in order.
TickersWith(outcome) ==
    LET picked == SelectSeq([i \in 1..Len(args.argv.ticker) |-> i],
                            LAMBDA i : args.outcomes[i] = outcome)
    IN  [k \in 1..Len(picked) |-> args.argv.ticker[picked[k]]]

\* The run was stopped by the tests of the arguments or by the lookup of the
\* data source.
StoppedEarly ==
    ValidationFails(args.argv) \/ get_source(_REGISTRY, args.argv.source).raised

SomeTickerFailed == \E i \in 1..Len(args.argv.ticker) : args.outcomes[i] = "raise"

\* C27 (batch analysis of the command line), for arguments that the argument
\* parser accepts: a run stopped by argument validation or by the lookup of
\* the source analyses nothing and exits with 1; any other run hands every
\* ticker to analyze_stock in the order given, puts each ticker whose
\* analysis returned in results and each whose analysis raised in errors,
\* and exits with 1 if some ticker failed and with 0 otherwise.
C27_BatchAnalysis ==
    (op = "main" /\ ~parse_args_rejects(args.argv, _REGISTRY))
    => IF StoppedEarly
       THEN result = Exit(1)
       ELSE /\ result.analysed = [i \in 1..Len(args.argv.ticker) |-> Upper(args.argv.ticker[i])]
            /\ result.results = [k \in 1..Len(TickersWith("ok")) |->
                                    [ticker |-> Upper(TickersWith("ok")[k])]]
            /\ result.errors = TickersWith("raise")
            /\ Len(result.results) + Len(result.errors) = Len(args.argv.ticker)
            /\ result.exit_code = (IF SomeTickerFailed THEN 1 ELSE 0)

C27_Witness ==
    /\ op = "main"
    /\ ~parse_args_rejects(args.argv, _REGISTRY)
    /\ ~StoppedEarly
    /\ Len(args.argv.ticker) = 2
    /\ args.outcomes = <<"raise", "ok">>
    /\ result.exit_code = 1
    /\ result.errors = <<args.argv.ticker[1]>>
    /\ result.results = <<[ticker |-> Upper(args.argv.ticker[2])]>>

\* C27 as stated, for every run: the exit code is 1 if and only if a ticker
\* failed or argument validation or the source lookup failed, else 0.
C27_ExitCodeOfEveryRun ==
    op = "main"
    => /\ result.exit_code \in {0, 1}
       /\ result.exit_code = 1
          <=> \/ parse_args_rejects(args.argv, _REGISTRY)
              \/ StoppedEarly
              \/ SomeTickerFailed

\* The cache key of the request of the call.
CallKey ==
    _generate_cache_key(args.request.source, args.request.ticker, args.request.endpoint)

\* The entries of a collection under a key.
EntriesOf(coll, key) == {i \in 1..Len(coll) : coll[i].cache_key = key}

\* C28 (no expired data from the cache): a get returns a result only if the
\* collection held, when it was called, an entry under its cache key whose
\* expires_at is not before the current time, and the data returned is that
\* of the latest set stored under the key; a get that finds an entry whose
\* expires_at is before the current time returns None and leaves no entry
\* under the key; after every operation there is at most one entry per key.
C28_NoExpiredData ==
    /\ op = "cache_get"
       => /\ result.found
             => /\ \E i \in EntriesOf(args.before, CallKey) :
                      args.before[i].expires_at >= now
                /\ result.data = DictGet(last_set, CallKey).value
                /\ collection = args.before
          /\ (/\ args.ok
              /\ \E i \in EntriesOf(args.before, CallKey) :
                   args.before[i].expires_at < now)
             => /\ ~result.found
                /\ EntriesOf(collection, CallKey) = {}
    /\ \A i \in 1..Len(collection) :
         Cardinality(EntriesOf(collection, collection[i].cache_key)) = 1

C28_Witness ==
    /\ op = "cache_get"
    /\ args.ok
    /\ ~result.found
    /\ Len(args.before) = 2
    /\ Len(collection) = 1
    /\ collection[1].cache_key # CallKey
    /\ DictGet(last_set, CallKey).value = 2
    /\ Len(last_set) = 2

\* The collection held a live entry under the key of the call.
LiveBefore ==
    \E i \in EntriesOf(args.before, CallKey) : args.before[i].expires_at >= now

\* The lookup of the call returned an entry.
LookupHit == ~args.force_refresh /\ args.get_ok /\ LiveBefore

\* C29 (cached fetch helpers): the upstream fetch is performed if and only
\* if force_refresh is set or the lookup returns nothing (no live entry, or
\* the store failed); cache.set is called if and only if a fetch was
\* performed and returned non-empty data; after an empty fetch every entry
\* is as it was, except that a lookup that found an expired entry under the
\* key has deleted it.
C29_CachedFetch ==
    op = "cached_fetch"
    => /\ result.fetch_performed <=> ~LookupHit
       /\ result.set_called <=> (result.fetch_performed /\ args.fetched # 0)
       /\ LookupHit => result.value = args.before[find_one(args.before, CallKey)].data
       /\ ~result.set_called
          => collection =
                IF ~args.force_refresh /\ args.get_ok /\ ~LiveBefore
                THEN delete_one(args.before, CallKey)
                ELSE args.before
       /\ (result.set_called /\ args.set_ok)
          => /\ collection[find_one(collection, CallKey)].data = args.fetched
             /\ collection[find_one(collection, CallKey)].expires_at = now + 24

C29_Witness ==
    /\ op = "cached_fetch"
    /\ ~args.force_refresh /\ args.get_ok
    /\ args.fetched = 0
    /\ EntriesOf(args.before, CallKey) # {}
    /\ ~LiveBefore
    /\ result.fetch_performed
    /\ Len(args.before) = 2
    /\ Len(collection) = 1

\* C29 as stated, with the store answering every call: the fetch is
\* performed if and only if force_refresh is set or no live entry exists, and
\* a call whose fetch returned nothing leaves the cache as it was.
C29_EmptyFetchLeavesCache ==
    (op = "cached_fetch" /\ args.get_ok /\ args.set_ok)
    => /\ result.fetch_performed <=> (args.force_refresh \/ ~LiveBefore)
       /\ (result.fetch_performed /\ args.fetched = 0) => collection = args.before

\* The subscriptions to the type of the published event, in subscription order.
Subscribed == CallbacksOf(subscribers, args.event.event_type)

\* The position of the first subscription whose callback raises what
\* `except Exception` does not handle; past the end if there is none.
FirstExit ==
    IF \E i \in 1..Len(Subscribed) : Subscribed[i].does = "exits"
    THEN CHOOSE i \in 1..Len(Subscribed) :
            /\ Subscribed[i].does = "exits"
            /\ \A j \in 1..(i - 1) : Subscribed[j].does # "exits"
    ELSE Len(Subscribed) + 1

\* C30 (event delivery): publish(event) appends the event to event_history
\* once, before any callback runs, and then calls the callback of each
\* subscription to event.event_type once, in subscription order, and no
\* other callback; a callback that raises an Exception does not stop the
\* later ones and publish does not raise; a callback that raises a
\* BaseException which is no Exception ends the delivery there and publish
\* raises it.
C30_Delivery ==
    op = "publish"
    => LET last == IF FirstExit > Len(Subscribed) THEN Len(Subscribed) ELSE FirstExit
       IN  /\ event_history = Append(args.before, args.event)
           /\ result.trace[1] = [step |-> "append", callback |-> 0]
           /\ Len(result.trace) = last + 1
           /\ \A i \in 1..last :
                result.trace[i + 1] = [step |-> "call", callback |-> Subscribed[i].id]
           /\ result.raised <=> FirstExit <= Len(Subscribed)

C30_Witness ==
    /\ op = "publish"
    /\ Len(subscribers) = 2
    /\ Len(Subscribed) = 3
    /\ Subscribed[1].does = "raises"
    /\ Subscribed[2].does = "returns"
    /\ Subscribed[3] = Subscribed[1]
    /\ ~result.raised
    /\ Len(result.trace) = 4
    /\ Len(event_history) = 2

\* C30 as stated: publish does not raise, and every callback subscribed to
\* the type of the event is called exactly once.
C30_EachCallbackOnce ==
    op = "publish"
    => /\ ~result.raised
       /\ \A i \in 1..Len(Subscribed) :
            Cardinality({k \in 1..Len(result.trace) :
                            result.trace[k] = [step |-> "call",
                                               callback |-> Subscribed[i].id]}) = 1

====
